---- MODULE Spec2Model ----
(***************************************************************************)
(* Criteria-to-report pipeline of T2SQL (src/T2SQL): criteria parsing,     *)
(* extraction and rewriting of the LLM's SQL, the restricted-operation     *)
(* gate and guarded execution.                                             *)
(*                                                                         *)
(* Text is a sequence of atoms.  An atom is one lexeme of the text: a word *)
(* (letters, digits, underscore), a quoted literal, a punctuation mark, a  *)
(* wrapper marker or a piece of whitespace ("SP" is a                      *)
(* non-empty run of blanks, "NL" a newline).  Two word atoms that are      *)
(* adjacent form one longer word.                                          *)
(***************************************************************************)
EXTENDS Integers, Sequences, FiniteSets, TLC

VARIABLES
    pc,            \* position of the operation under way
    query,         \* SQL text handed to the operation
    config,        \* config.json: sequence of [table, select_columns]
    llm_response,  \* raw text returned by the LLM
    sql_query,     \* text returned by _process_llm_response / _modify_query
    llm_calls,     \* calls of client.chat.completions.create in the request
    restricted,    \* result of contains_restricted_operations
    status,        \* (status, comments) pair of the request
    comments,
    run_sql_calls, \* queries submitted to the warehouse, in order
    uploads,       \* number of reports put to S3
    session,       \* claimRequestStatus written to the session table
    input_str,     \* argument of process_criteria / reorder_criteria
    input_is_str,  \* isinstance(input_str, str)
    reordered,     \* text returned by reorder_criteria
    result_dict,   \* result of process_criteria: sequence of [key, values]
    exec_log,      \* calls run_sql has made on the connection, in order
    result_rows,   \* number of rows the warehouse result holds
    df_rows,       \* number of rows of the frame df
    large_data_flag,
    df,            \* frame handed to the post-processing function: sequence of rows
    reportType,    \* report type of the request
    exclude_columns, \* lookup_mapping.json: exclude_columns of the report type
    limit_values,  \* values argument of filter_limit_columns_by_values
    out_df,        \* frame the function returned
    invocations,   \* per invocation of transformation: its position and locals
    requests,      \* per invocation: the fields of its input_json
    local_index,   \* content of ./.ragatouille, the local copy of the index
    metric_table,  \* the day's record of the insights table, <<>> when absent
    processors,    \* per SQLProcessor instance: the fields set by __init__
    state,         \* self.state of the flow
    crew_runs,     \* number of kickoffs of each crew
    validated      \* per stage: the SOP the stored verdict was computed for

vars == <<pc, query, config, llm_response, sql_query, llm_calls, restricted, status,
          comments, run_sql_calls, uploads, session, input_str, input_is_str,
          reordered, result_dict, exec_log, result_rows, df_rows,
          large_data_flag, df, reportType, exclude_columns, limit_values,
          out_df, invocations, requests, local_index, metric_table, processors,
          state, crew_runs, validated>>

(***************************************************************************)
(* Text helpers (Python str / re primitives on atom sequences)             *)
(***************************************************************************)

Whitespace == {"SP", "NL"}

\* atoms made of word characters only (\w); everything else is a non-word atom
WordAtoms ==
    {"SELECT", "select", "FROM", "from", "CLM_WGS_GNCCLMP_CMPCT",
     "clm_wgs_gncclmp_cmpct", "CLM", "clm", "DELETE", "delete", "DROP",
     "drop", "DROP_RATE", "TRUNCATE", "CREATE", "OR", "REPLACE", "WHERE", "t",
     "x", "sql", "sorry", "INNER", "JOIN", "GNCHIIOS_HCLM_DCN", "MIN",
     "GNCHIIOS_HCLM_SEQ_NBR", "AS", "min_seq", "GROUP", "BY", "ms", "ON", "AND",
     "DTL", "EOB", "None", "DDC_CD_HCID", "DDC_CD_CLM_TYPE", "DDC_DTL_PRCDR_CDE",
     "DDC_EOB_CDE"}

IsWord(a) == a \in WordAtoms

\* str.upper() on one atom
Upper(a) ==
    CASE a = "select" -> "SELECT"
      [] a = "from" -> "FROM"
      [] a = "clm_wgs_gncclmp_cmpct" -> "CLM_WGS_GNCCLMP_CMPCT"
      [] a = "clm" -> "CLM"
      [] a = "delete" -> "DELETE"
      [] a = "drop" -> "DROP"
      [] OTHER -> a

\* s[i:] (1-based, empty when i is past the end)
From(s, i) == IF i > Len(s) THEN <<>> ELSE SubSeq(s, i, Len(s))

\* s[:i] exclusive of i
Before(s, i) == IF i <= 1 THEN <<>> ELSE SubSeq(s, 1, i - 1)

\* p occurs in s at position i
OccursAt(s, p, i) ==
    /\ i >= 1
    /\ i + Len(p) - 1 <= Len(s)
    /\ \A k \in 1..Len(p) : s[i + k - 1] = p[k]

\* p in s
Contains(s, p) == \E i \in 1..(Len(s) + 1) : OccursAt(s, p, i)

\* least element of a non-empty set of integers
Least(S) == CHOOSE m \in S : \A n \in S : m <= n

Greatest(S) == CHOOSE m \in S : \A n \in S : m >= n

\* str.strip()
Strip(s) ==
    LET keep == {i \in 1..Len(s) : s[i] \notin Whitespace}
    IN  IF keep = {} THEN <<>> ELSE SubSeq(s, Least(keep), Greatest(keep))

\* number of positions at which p occurs in s
Count(s, p) == Cardinality({i \in 1..Len(s) : OccursAt(s, p, i)})

\* concatenations of at most n pieces
RECURSIVE Texts(_, _)
Texts(pieces, n) ==
    IF n = 0 THEN {<<>>}
    ELSE LET shorter == Texts(pieces, n - 1)
         IN  shorter \cup {t \o p : t \in shorter, p \in pieces}

(***************************************************************************)
(* sqlparse: lexer and statement splitter, as far as the scan depends on   *)
(* them.  A token is [ttype, value], value being the token's text.         *)
(***************************************************************************)

KeywordTypes == {"Keyword", "Keyword.DML", "Keyword.DDL"}

\* the lexer's keyword table, for one upper-cased word
KeywordType(w) ==
    CASE w \in {"SELECT", "INSERT", "UPDATE", "DELETE", "REPLACE"} -> "Keyword.DML"
      [] w \in {"DROP", "CREATE", "ALTER"} -> "Keyword.DDL"
      [] w \in {"TRUNCATE", "RENAME", "FROM", "WHERE", "OR", "AND", "AS", "ON",
                "INNER", "JOIN", "GROUP", "BY", "MIN"} -> "Keyword"
      [] OTHER -> "Name"

\* first position >= j that holds no whitespace (Len(s) + 1 when there is none)
SkipWs(s, j) ==
    Least({k \in j..(Len(s) + 1) : k > Len(s) \/ s[k] \notin Whitespace})

\* last position of the maximal run of word atoms that starts at i
RunEnd(s, i) ==
    Greatest({k \in i..Len(s) : \A m \in i..k : IsWord(s[m])})

\* \b after position e: the text ends or a non-word character follows
BoundaryAfter(s, e) == e >= Len(s) \/ ~IsWord(s[e + 1])

\* \b before position i
BoundaryBefore(s, i) == i <= 1 \/ ~IsWord(s[i - 1])

\* end of CREATE\s+OR\s+REPLACE\b starting at i, 0 when it does not match
CreateOrReplaceEnd(s, i) ==
    LET o == SkipWs(s, i + 1)
        r == SkipWs(s, o + 1)
    IN  IF /\ s[i] = "CREATE"
           /\ o > i + 1 /\ o <= Len(s) /\ s[o] = "OR"
           /\ r > o + 1 /\ r <= Len(s) /\ s[r] = "REPLACE"
           /\ BoundaryAfter(s, r)
        THEN r ELSE 0

NonWordType(a) ==
    IF a \in Whitespace THEN "Whitespace"
    ELSE IF a = "'DROP'" THEN "String.Single"
    ELSE "Punctuation"

\* the positions swallowed by a CREATE OR REPLACE token that starts earlier
InCreateOrReplace(s, j) ==
    \E i \in 1..(j - 1) :
        /\ s[i] = "CREATE"
        /\ BoundaryBefore(s, i)
        /\ j <= CreateOrReplaceEnd(s, i)

\* the positions where a token starts
TokenStarts(s) ==
    {i \in 1..Len(s) :
        /\ ~InCreateOrReplace(s, i)
        /\ ~IsWord(s[i]) \/ BoundaryBefore(s, i)}

\* the token that starts at position i
TokenAt(s, i) ==
    IF ~IsWord(s[i])
    THEN [ttype |-> NonWordType(s[i]), value |-> <<s[i]>>]
    ELSE LET e == RunEnd(s, i)
             c == CreateOrReplaceEnd(s, i)
         IN  IF e < Len(s) /\ s[e + 1] = "("
             THEN \* a word before "(" is a function name
                  [ttype |-> "Name", value |-> SubSeq(s, i, e)]
             ELSE IF e = i /\ c > 0
             THEN \* CREATE OR REPLACE is one DDL token
                  [ttype |-> "Keyword.DDL", value |-> SubSeq(s, i, c)]
             ELSE IF e = i
             THEN [ttype |-> KeywordType(Upper(s[i])), value |-> <<s[i]>>]
             ELSE [ttype |-> "Name", value |-> SubSeq(s, i, e)]

\* the token stream of the text
Lex(s) ==
    LET starts == TokenStarts(s)
        nth(k) == CHOOSE i \in starts :
                      Cardinality({j \in starts : j < i}) = k - 1
    IN  [k \in 1..Cardinality(starts) |-> TokenAt(s, nth(k))]

\* statements end after each ";"
RECURSIVE SplitStatements(_)
SplitStatements(toks) ==
    IF toks = <<>> THEN <<>>
    ELSE LET semis == {k \in 1..Len(toks) : toks[k].value = <<";">>}
             e == IF semis = {} THEN Len(toks) ELSE Least(semis)
         IN  <<SubSeq(toks, 1, e)>> \o SplitStatements(From(toks, e + 1))

\* sqlparse.parse(query), each statement flattened
SqlParse(q) == SplitStatements(Lex(q))

\* token.value.upper()
UpperText(v) == [k \in 1..Len(v) |-> Upper(v[k])]

(***************************************************************************)
(* SQLProcessor (src/T2SQL/sql_processor.py)                               *)
(***************************************************************************)

restricted_operations ==
    {<<"INSERT">>, <<"UPDATE">>, <<"DELETE">>, <<"DROP">>, <<"ALTER">>,
     <<"CREATE">>, <<"REPLACE">>, <<"TRUNCATE">>, <<"RENAME">>}

IsRestrictedToken(tok) ==
    tok.ttype \in KeywordTypes /\ UpperText(tok.value) \in restricted_operations

\* the scan stops at the first statement only
ContainsRestrictedOperations_FirstStatement(q) ==
    LET parsed == SqlParse(q)
    IN  parsed # <<>> /\ \E k \in 1..Len(parsed[1]) : IsRestrictedToken(parsed[1][k])

ContainsRestrictedOperations(q) ==
    LET parsed == SqlParse(q)
    IN  \E n \in 1..Len(parsed) :
            \E k \in 1..Len(parsed[n]) : IsRestrictedToken(parsed[n][k])

\* is_valid_syntax: the parse of the last scanned text is not empty
IsValidSyntax(q) == SqlParse(q) # <<>>

\* 'SELECT' in query
HasSELECT(q) == \E i \in 1..Len(q) : q[i] = "SELECT"

\* the SELECT test comes first and a restricted query with a SELECT is run
ProcessQueryBranch_SelectFirst(isRestricted, q) ==
    IF IsValidSyntax(q) /\ HasSELECT(q) THEN "execute"
    ELSE IF isRestricted THEN "restricted"
    ELSE "invalid"

\* the branch process_query takes once the scan has returned isRestricted
ProcessQueryBranch(isRestricted, q) ==
    IF isRestricted THEN "restricted"
    ELSE IF IsValidSyntax(q) /\ HasSELECT(q) THEN "execute"
    ELSE "invalid"


(***************************************************************************)
(* SQLGenerator (src/T2SQL/sql_generator.py)                               *)
(***************************************************************************)

PrimaryTable == "CLM_WGS_GNCCLMP_CMPCT"

\* table_alias_mapping.get(table_name)
table_alias_mapping(table_name) ==
    CASE table_name = "CLM_WGS_GNCCLMP_CMPCT" -> "CLM"
      [] table_name = "CLM_WGS_GNCDTLP_CMPCT" -> "DTL"
      [] table_name = "CLM_WGS_GNCNATP_E00_CMPCT" -> "E00"
      [] table_name = "CLM_WGS_GNCNATP_EA1_CMPCT" -> "EA1"
      [] table_name = "CLM_WGS_GNCNATP_EA2_CMPCT" -> "EA2"
      [] table_name = "CLM_WGS_GNCNATP_EA3_CMPCT" -> "EA3"
      [] table_name = "CLM_WGS_GNCEOBP_CMPCT" -> "EOB"
      [] OTHER -> "None"

\* "DDC_CD_HCID" in col
HasHCID(col) == col = "DDC_CD_HCID"

\* every column is qualified, the member identifier too
AliasedColumn_AlwaysQualified(alias, col) == <<alias, ".", col>>

\* f"{alias}.{col}" if "DDC_CD_HCID" not in col else col
AliasedColumn(alias, col) ==
    IF ~HasHCID(col) THEN <<alias, ".", col>> ELSE <<col>>

\* the aliased columns of one table
aliased_columns(table_config) ==
    [k \in 1..Len(table_config.select_columns) |->
        AliasedColumn(table_alias_mapping(table_config.table),
                      table_config.select_columns[k])]

\* combined_columns: the aliased columns of the tables, in config order
RECURSIVE combined_columns(_)
combined_columns(cfg) ==
    IF cfg = <<>> THEN <<>>
    ELSE aliased_columns(Head(cfg)) \o combined_columns(Tail(cfg))

\* sep.join(texts)
RECURSIVE Join(_, _)
Join(sep, texts) ==
    IF texts = <<>> THEN <<>>
    ELSE IF Len(texts) = 1 THEN texts[1]
    ELSE texts[1] \o sep \o Join(sep, Tail(texts))

\* end of a match of \bFROM\s+CLM_WGS_GNCCLMP_CMPCT\s+CLM\b (IGNORECASE) that
\* starts at i, 0 when there is none
FromMatchEnd(s, i) ==
    LET t == SkipWs(s, i + 1)
        a == SkipWs(s, t + 1)
    IN  IF /\ BoundaryBefore(s, i)
           /\ Upper(s[i]) = "FROM"
           /\ t > i + 1 /\ t <= Len(s) /\ Upper(s[t]) = PrimaryTable
           /\ a > t + 1 /\ a <= Len(s) /\ Upper(s[a]) = "CLM"
           /\ BoundaryAfter(s, a)
        THEN a ELSE 0

\* from_pattern.search(s): [start, end] of the leftmost match, start = 0 if none
from_pattern_search(s) ==
    LET starts == {i \in 1..Len(s) : FromMatchEnd(s, i) > 0}
    IN  IF starts = {} THEN [start |-> 0, end |-> 0]
        ELSE [start |-> Least(starts), end |-> FromMatchEnd(s, Least(starts))]

\* the subquery literal of _modify_query
subquery ==
    <<"NL", "SP", "INNER", "SP", "JOIN", "SP", "(", "SP", "NL",
      "SP", "SELECT", "SP", "GNCHIIOS_HCLM_DCN", ",", "SP", "MIN", "(",
      "GNCHIIOS_HCLM_SEQ_NBR", ")", "SP", "AS", "SP", "min_seq", "NL",
      "SP", "FROM", "SP", "CLM_WGS_GNCCLMP_CMPCT", "SP", "NL",
      "SP", "GROUP", "SP", "BY", "SP", "GNCHIIOS_HCLM_DCN", "NL",
      "SP", ")", "SP", "AS", "SP", "ms", "SP", "ON", "SP",
      "CLM", ".", "GNCHIIOS_HCLM_DCN", "SP", "=", "SP", "ms", ".",
      "GNCHIIOS_HCLM_DCN", "SP", "AND", "SP", "CLM", ".",
      "GNCHIIOS_HCLM_SEQ_NBR", "SP", "=", "SP", "ms", ".", "min_seq", "NL", "SP">>

\* the projection is put in front of the whole text, found or not
ModifyQuery_AlwaysProject(q, cfg) ==
    <<"SELECT", "NL">> \o Join(<<",", "NL">>, combined_columns(cfg)) \o <<"NL">>
        \o Strip(q)

\* the join is put in front of the clause instead of after it
ModifyQuery_JoinBeforeClause(q, cfg) ==
    LET m == from_pattern_search(q)
    IN  IF m.start = 0 THEN q
        ELSE <<"SELECT", "NL">> \o Join(<<",", "NL">>, combined_columns(cfg))
                 \o <<"NL">> \o Strip(subquery) \o <<"NL">> \o Strip(From(q, m.start))

\* _modify_query(query), config being the loaded config.json
ModifyQuery(q, cfg) ==
    LET columns == Join(<<",", "NL">>, combined_columns(cfg))
        match == from_pattern_search(q)
    IN  IF match.start = 0 THEN q
        ELSE LET new_select_clause == <<"SELECT", "NL">> \o columns \o <<"NL">>
                 new_query == new_select_clause \o Strip(From(q, match.start))
                 match_new == from_pattern_search(new_query)
             IN  IF match_new.start = 0 THEN new_query
                 ELSE SubSeq(new_query, 1, match_new.end) \o <<"NL">>
                          \o Strip(subquery) \o <<"NL">>
                          \o From(new_query, match_new.end + 1)

\* first position >= i at which p occurs in s, 0 when there is none
Find(s, p, i) ==
    LET at == {k \in i..Len(s) : OccursAt(s, p, k)}
    IN  IF at = {} THEN 0 ELSE Least(at)

\* last position >= i at which p occurs in s, 0 when there is none
FindLast(s, p, i) ==
    LET at == {k \in i..Len(s) : OccursAt(s, p, k)}
    IN  IF at = {} THEN 0 ELSE Greatest(at)

\* re.search(open (.*?) close, DOTALL): [found, group]; with greedy, (.*)
Search(s, open, close, greedy) ==
    LET o == Find(s, open, 1)
        b == o + Len(open)
        c == IF o = 0 THEN 0
             ELSE IF greedy THEN FindLast(s, close, b) ELSE Find(s, close, b)
    IN  IF o = 0 \/ c = 0 THEN [found |-> FALSE, group |-> <<>>]
        ELSE [found |-> TRUE, group |-> IF c = b THEN <<>> ELSE SubSeq(s, b, c - 1)]

\* the code-fence marker (three backquotes)
Fence == "FENCE"

\* re.sub(r"<generated_query>|</generated_query>|FENCE|FENCEsql", "", s): the
\* last alternative never applies, the bare fence is tried first
RemoveMarkers(s) ==
    SelectSeq(s, LAMBDA a : a \notin {"<generated_query>", "</generated_query>", Fence})

\* the patterns of _extract_sql, in order: [open, close, greedy]
patterns ==
    << [open |-> <<Fence, "sql", "NL">>, close |-> <<Fence>>, greedy |-> FALSE],
       [open |-> <<Fence, "sql", "NL">>, close |-> <<"</generated_query>">>, greedy |-> FALSE],
       [open |-> <<Fence>>, close |-> <<Fence>>, greedy |-> FALSE],
       [open |-> <<Fence>>, close |-> <<"</generated_query>">>, greedy |-> TRUE],
       [open |-> <<"<generated_query>">>, close |-> <<"</generated_query>">>, greedy |-> FALSE] >>

\* _extract_sql(llm_response)
ExtractSql(r) ==
    LET hits == {k \in 1..Len(patterns) :
                    Search(r, patterns[k].open, patterns[k].close, patterns[k].greedy).found}
    IN  IF hits = {} THEN Strip(RemoveMarkers(r))
        ELSE LET p == patterns[Least(hits)]
             IN  Strip(RemoveMarkers(Search(r, p.open, p.close, p.greedy).group))

\* _extract_response_content(llm_response)
ExtractResponseContent(r) ==
    Strip(Search(r, <<"<response>">>, <<"</response>">>, FALSE).group)

StaticError == <<"Something went wrong. Please try again.">>

\* the <response> wrapper is looked for before the SQL wrappers
ProcessLlmResponse_ResponseFirst(r, cfg) ==
    IF Contains(r, <<"<response>">>) /\ ExtractResponseContent(r) # <<>>
    THEN ExtractResponseContent(r)
    ELSE IF /\ Contains(r, <<Fence, "sql">>) \/ Contains(r, <<"<generated_query>">>)
            /\ ExtractSql(r) # <<>>
    THEN ModifyQuery(ExtractSql(r), cfg)
    ELSE StaticError

\* _process_llm_response(llm_response)
ProcessLlmResponse(r, cfg) ==
    IF /\ Contains(r, <<Fence, "sql">>) \/ Contains(r, <<"<generated_query>">>)
       /\ ExtractSql(r) # <<>>
    THEN ModifyQuery(ExtractSql(r), cfg)
    ELSE IF Contains(r, <<"<response>">>) /\ ExtractResponseContent(r) # <<>>
    THEN ExtractResponseContent(r)
    ELSE StaticError

(***************************************************************************)
(* Values of the variables an operation does not use                       *)
(***************************************************************************)

NoRequest ==
    /\ status = "" /\ comments = "" /\ run_sql_calls = <<>>
    /\ uploads = 0 /\ session = ""

NoGenerator ==
    config = <<>> /\ llm_response = <<>> /\ sql_query = <<>> /\ llm_calls = 0

NoCriteria ==
    /\ input_str = <<>> /\ input_is_str = TRUE
    /\ result_dict = <<>> /\ reordered = <<>>

requestVars == <<status, comments, run_sql_calls, uploads, session>>

generatorVars == <<config, llm_response, sql_query, llm_calls>>

criteriaVars == <<input_str, input_is_str, result_dict, reordered>>

NoExecution ==
    /\ exec_log = <<>> /\ result_rows = 0 /\ df_rows = 0
    /\ large_data_flag = FALSE

executionVars == <<exec_log, result_rows, df_rows, large_data_flag>>

NoFrame ==
    /\ df = <<>> /\ reportType = "line" /\ exclude_columns = {}
    /\ limit_values = <<>> /\ out_df = <<>>

frameVars == <<df, reportType, exclude_columns, limit_values, out_df>>

\* no invocation is under way
NoConcurrent ==
    /\ invocations = <<>> /\ requests = <<>> /\ local_index = ""
    /\ metric_table = <<>> /\ processors = <<>>

concurrentVars == <<invocations, requests, local_index, metric_table, processors>>

\* no flow is under way
NoFlow == state = <<>> /\ crew_runs = <<>> /\ validated = <<>>

flowVars == <<state, crew_runs, validated>>

(***************************************************************************)
(* SpecScan: contains_restricted_operations on bounded SQL texts           *)
(***************************************************************************)

MaxScanPieces == 4

ScanPieces ==
    {<<"SELECT">>, <<"SP">>, <<";">>, <<"DROP">>, <<"drop">>, <<"DROP_RATE">>,
     <<"'DROP'">>, <<"DELETE">>, <<"TRUNCATE">>, <<"t">>, <<"REPLACE", "(">>,
     <<"CREATE", "SP", "OR", "SP", "REPLACE">>}

InitScan ==
    /\ pc = "scan"
    /\ query \in Texts(ScanPieces, MaxScanPieces)
    /\ restricted = FALSE
    /\ NoFrame /\ NoExecution /\ NoRequest /\ NoGenerator /\ NoCriteria
    /\ NoConcurrent /\ NoFlow

ScanCall ==
    /\ pc = "scan"
    /\ restricted' = ContainsRestrictedOperations(query)
    /\ pc' = "scanned"
    /\ UNCHANGED <<query, requestVars, generatorVars, criteriaVars, executionVars, frameVars,
                   concurrentVars, flowVars>>

NextScan == ScanCall

SpecScan == InitScan /\ [][NextScan]_vars

\* position i of the text holds a whole word that is not a function name
C2_WholeWordAt(q, i) ==
    /\ IsWord(q[i])
    /\ i = 1 \/ ~IsWord(q[i - 1])
    /\ i = Len(q) \/ (~IsWord(q[i + 1]) /\ q[i + 1] # "(")

\* C2: contains_restricted_operations returns true exactly when some token of
\* the text has a keyword type (Keyword, DML, DDL) and an upper-cased value in
\* the restricted list; a text whose restricted words sit only inside
\* identifiers (DROP_RATE) or string literals ('DROP') yields false; a
\* restricted keyword standing as a word of its own anywhere in the text,
\* whatever statement it is in, yields true.
C2_ScanFlagsKeywordTokens ==
    pc = "scanned" =>
        LET toks == Lex(query)
        IN  /\ restricted <=>
                \E k \in 1..Len(toks) :
                    /\ toks[k].ttype \in {"Keyword", "Keyword.DML", "Keyword.DDL"}
                    /\ UpperText(toks[k].value) \in
                         {<<"INSERT">>, <<"UPDATE">>, <<"DELETE">>, <<"DROP">>,
                          <<"ALTER">>, <<"CREATE">>, <<"REPLACE">>, <<"TRUNCATE">>,
                          <<"RENAME">>}
            /\ (\A i \in 1..Len(query) :
                    query[i] \in {"SELECT", "SP", ";", "t", "DROP_RATE", "'DROP'"})
                => ~restricted
            /\ (\E i \in 1..Len(query) :
                    /\ query[i] \in {"DROP", "drop", "DELETE", "TRUNCATE"}
                    /\ C2_WholeWordAt(query, i))
                => restricted

\* a restricted keyword in the second statement of a two-statement text
C2_Witness ==
    /\ pc = "scanned"
    /\ restricted
    /\ \E i \in 1..Len(query) :
        /\ query[i] = ";"
        /\ \A j \in 1..i : query[j] \in {"SELECT", "SP", ";", "t", "DROP_RATE"}
        /\ \E j \in (i + 1)..Len(query) : query[j] \in {"DROP", "drop"}


(***************************************************************************)
(* SpecModify: _modify_query on bounded SQL texts and configurations       *)
(***************************************************************************)

MaxModifyPieces == 3

MaxConfigTables == 2

Clause == <<"FROM", "SP", "CLM_WGS_GNCCLMP_CMPCT", "SP", "CLM">>

DedupJoin == Strip(subquery)

ModifyPieces ==
    {<<"SELECT", "SP", "*", "SP">>, <<"DELETE", "SP">>, Clause,
     <<"from", "NL", "clm_wgs_gncclmp_cmpct", "SP", "clm">>,
     <<"FROM", "SP", "CLM_WGS_GNCCLMP_CMPCT", "SP">>,
     <<"SP", "WHERE", "SP", "x">>, <<"NL">> \o DedupJoin, <<"x">>, <<"SP">>}

\* the select_columns a config.json may give a table
ConfigEntries ==
    {[table |-> "CLM_WGS_GNCCLMP_CMPCT", select_columns |-> c] :
        c \in {<<"DDC_CD_HCID", "DDC_CD_CLM_TYPE">>, <<"DDC_CD_CLM_TYPE">>}}
    \cup {[table |-> "CLM_WGS_GNCDTLP_CMPCT", select_columns |-> c] :
        c \in {<<"DDC_DTL_PRCDR_CDE">>, <<>>}}
    \cup {[table |-> "CLM_WGS_GNCEOBP_CMPCT", select_columns |-> c] :
        c \in {<<"DDC_EOB_CDE", "DDC_CD_HCID">>}}

\* config.json files with at most n tables (an object's keys are distinct)
RECURSIVE Configs(_)
Configs(n) ==
    IF n = 0 THEN {<<>>}
    ELSE LET fewer == Configs(n - 1)
         IN  fewer \cup
             {Append(ce[1], ce[2]) :
                 ce \in {x \in fewer \X ConfigEntries :
                           \A k \in 1..Len(x[1]) : x[1][k].table # x[2].table}}

InitModify ==
    /\ pc = "modify"
    /\ query \in Texts(ModifyPieces, MaxModifyPieces)
    /\ config \in Configs(MaxConfigTables)
    /\ llm_calls = 0
    /\ llm_response = <<>> /\ sql_query = <<>>
    /\ restricted = FALSE
    /\ NoFrame /\ NoExecution /\ NoRequest /\ NoCriteria
    /\ NoConcurrent /\ NoFlow

\* sql_query = _modify_query(query)
ModifyCall ==
    /\ pc = "modify"
    /\ sql_query' = ModifyQuery(query, config)
    /\ pc' = "modified"
    /\ UNCHANGED <<query, config, llm_response, llm_calls, restricted, requestVars, criteriaVars, executionVars, frameVars,
                   concurrentVars, flowVars>>

\* the output is sanitized again: sql_query = _modify_query(sql_query)
ModifyAgain ==
    /\ pc = "modified"
    /\ query' = sql_query
    /\ sql_query' = ModifyQuery(sql_query, config)
    /\ pc' = "modified_twice"
    /\ UNCHANGED <<config, llm_response, llm_calls, restricted, requestVars, criteriaVars, executionVars, frameVars,
                   concurrentVars, flowVars>>

NextModify == ModifyCall \/ ModifyAgain

SpecModify == InitModify /\ [][NextModify]_vars


\* the primary-table clause occurs in q: FROM, blanks, the table, blanks, CLM,
\* each a whole word, in any letter case
C7_ClauseOccurs(q) ==
    \E i \in 1..Len(q) :
        /\ Upper(q[i]) = "FROM"
        /\ i = 1 \/ ~IsWord(q[i - 1])
        /\ \E t \in (i + 2)..Len(q) :
            /\ Upper(q[t]) = "CLM_WGS_GNCCLMP_CMPCT"
            /\ \A k \in (i + 1)..(t - 1) : q[k] \in {"SP", "NL"}
            /\ \E a \in (t + 2)..Len(q) :
                /\ Upper(q[a]) = "CLM"
                /\ \A k \in (t + 1)..(a - 1) : q[k] \in {"SP", "NL"}
                /\ a = Len(q) \/ ~IsWord(q[a + 1])

\* C4: when the primary-table clause is found in the input, the output of
\* _modify_query contains exactly one de-duplication join, placed right
\* after the (first) primary-table clause.
C4_ExactlyOneDedupJoin ==
    (pc = "modified" /\ C7_ClauseOccurs(query)) =>
        /\ Count(sql_query, DedupJoin) = 1
        /\ OccursAt(sql_query, DedupJoin, from_pattern_search(sql_query).end + 2)

\* C5: sanitizing an already sanitized query (one primary-table clause, one
\* de-duplication join) leaves it with that single join.
C5_SecondPassKeepsSingleJoin ==
    (/\ pc = "modified_twice"
     /\ Cardinality({i \in 1..Len(query) : FromMatchEnd(query, i) > 0}) = 1
     /\ Count(query, DedupJoin) = 1) =>
        Count(sql_query, DedupJoin) = 1

\* the [table, col] pairs of a configuration, in configuration order
RECURSIVE C6_Pairs(_)
C6_Pairs(cfg) ==
    IF cfg = <<>> THEN <<>>
    ELSE [k \in 1..Len(Head(cfg).select_columns) |->
             [table |-> Head(cfg).table, col |-> Head(cfg).select_columns[k]]]
         \o C6_Pairs(Tail(cfg))

C6_Alias ==
    [t \in {"CLM_WGS_GNCCLMP_CMPCT", "CLM_WGS_GNCDTLP_CMPCT",
            "CLM_WGS_GNCNATP_E00_CMPCT", "CLM_WGS_GNCNATP_EA1_CMPCT",
            "CLM_WGS_GNCNATP_EA2_CMPCT", "CLM_WGS_GNCNATP_EA3_CMPCT",
            "CLM_WGS_GNCEOBP_CMPCT"} |->
        CASE t = "CLM_WGS_GNCCLMP_CMPCT" -> "CLM"
          [] t = "CLM_WGS_GNCDTLP_CMPCT" -> "DTL"
          [] t = "CLM_WGS_GNCNATP_E00_CMPCT" -> "E00"
          [] t = "CLM_WGS_GNCNATP_EA1_CMPCT" -> "EA1"
          [] t = "CLM_WGS_GNCNATP_EA2_CMPCT" -> "EA2"
          [] t = "CLM_WGS_GNCNATP_EA3_CMPCT" -> "EA3"
          [] OTHER -> "EOB"]

C6_Columns == {"DDC_CD_HCID", "DDC_CD_CLM_TYPE", "DDC_DTL_PRCDR_CDE", "DDC_EOB_CDE"}

\* the k-th smallest element of a set of integers
C6_Nth(S, k) == CHOOSE x \in S : Cardinality({y \in S : y <= x}) = k

\* C6: when the clause is found, everything before its first occurrence is
\* replaced by one SELECT list holding every configured column of every
\* configured table in configuration order, each qualified by its table's
\* alias, DDC_CD_HCID alone unqualified; no other text precedes the clause.
C6_ProjectionReplacesHead ==
    (pc = "modified" /\ C7_ClauseOccurs(query)) =>
        LET m == from_pattern_search(query)
            start == from_pattern_search(sql_query).start
            head == Before(sql_query, start)
            pairs == C6_Pairs(config)
            at == {i \in 1..Len(head) : head[i] \in C6_Columns}
        IN  /\ start > 2
            /\ head[1] = "SELECT"
            /\ Count(head, <<"SELECT">>) = 1
            /\ \A i \in 1..Len(head) :
                  head[i] \in {"SELECT", "NL", ",", "."} \cup C6_Columns
                              \cup {C6_Alias[t] : t \in DOMAIN C6_Alias}
            /\ Cardinality(at) = Len(pairs)
            /\ \A k \in 1..Len(pairs) :
                  LET i == C6_Nth(at, k)
                  IN  /\ head[i] = pairs[k].col
                      /\ IF pairs[k].col = "DDC_CD_HCID"
                         THEN head[i - 1] # "."
                         ELSE head[i - 1] = "." /\ head[i - 2] = C6_Alias[pairs[k].table]
            /\ SubSeq(sql_query, start, start + (m.end - m.start))
                  = SubSeq(query, m.start, m.end)

\* two tables, the member identifier among the columns, text before the clause
C6_Witness ==
    /\ pc = "modified"
    /\ C7_ClauseOccurs(query)
    /\ from_pattern_search(query).start > 1
    /\ Len(config) = 2
    /\ \E k \in 1..Len(C6_Pairs(config)) : C6_Pairs(config)[k].col = "DDC_CD_HCID"
    /\ \E k \in 1..Len(C6_Pairs(config)) : C6_Pairs(config)[k].col # "DDC_CD_HCID"

\* C7: when the primary-table clause does not occur in the query,
\* _modify_query returns the input text unchanged.
C7_NoClauseUnchanged ==
    (pc = "modified" /\ ~C7_ClauseOccurs(query)) => sql_query = query

\* a near miss (FROM and the table without the alias CLM) with blanks around
C7_Witness ==
    /\ pc = "modified"
    /\ ~C7_ClauseOccurs(query)
    /\ Len(query) > 1 /\ query[1] = "SP"
    /\ \E i \in 1..Len(query) : query[i] = "FROM"
    /\ sql_query = query


(***************************************************************************)
(* SpecResponse: _process_llm_response on bounded LLM responses            *)
(***************************************************************************)

MaxResponsePieces == 4

\* the configuration the responses are processed under
DefaultConfig ==
    << [table |-> "CLM_WGS_GNCCLMP_CMPCT",
        select_columns |-> <<"DDC_CD_HCID", "DDC_CD_CLM_TYPE">>],
       [table |-> "CLM_WGS_GNCDTLP_CMPCT", select_columns |-> <<"DDC_DTL_PRCDR_CDE">>] >>

ResponsePieces ==
    {<<Fence, "sql", "NL">>, <<Fence, "sql", "SP">>, <<Fence>>,
     <<"<generated_query>">>, <<"</generated_query>">>,
     <<"<response>", "sorry", "</response>">>, <<"<response>", "SP", "</response>">>,
     <<"x">>, <<"SELECT", "SP", "*", "SP">> \o Clause, <<"SP">>}

InitResponse ==
    /\ pc = "process"
    /\ llm_response \in Texts(ResponsePieces, MaxResponsePieces)
    /\ config = DefaultConfig
    /\ llm_calls = 0
    /\ sql_query = <<>> /\ query = <<>>
    /\ restricted = FALSE
    /\ NoFrame /\ NoExecution /\ NoRequest /\ NoCriteria
    /\ NoConcurrent /\ NoFlow

\* sql_query = self._process_llm_response(llm_response)
ProcessCall ==
    /\ pc = "process"
    /\ sql_query' = ProcessLlmResponse(llm_response, config)
    /\ pc' = "processed"
    /\ UNCHANGED <<query, config, llm_response, llm_calls, restricted, requestVars, criteriaVars, executionVars, frameVars,
                   concurrentVars, flowVars>>

NextResponse == ProcessCall

SpecResponse == InitResponse /\ [][NextResponse]_vars

\* the response opens a fenced SQL block or a <generated_query> wrapper
C8_SqlMarker(r) ==
    \/ \E i \in 1..(Len(r) - 1) : r[i] = Fence /\ r[i + 1] = "sql"
    \/ \E i \in 1..Len(r) : r[i] = "<generated_query>"

\* the response opens a <response> wrapper
C8_ResponseMarker(r) == \E i \in 1..Len(r) : r[i] = "<response>"

\* C8: _process_llm_response decides in a fixed order: a response that opens
\* an SQL wrapper whose extracted content is not empty gives the extracted,
\* sanitized SQL, also when a <response> wrapper is present; otherwise a
\* <response> wrapper with non-empty content gives its inner text; otherwise
\* the result is the fixed message.
C8_DecisionOrder ==
    pc = "processed" =>
        LET sql == C8_SqlMarker(llm_response) /\ ExtractSql(llm_response) # <<>>
            refusal == /\ C8_ResponseMarker(llm_response)
                       /\ ExtractResponseContent(llm_response) # <<>>
        IN  /\ sql => sql_query = ModifyQuery(ExtractSql(llm_response), config)
            /\ (~sql /\ refusal) => sql_query = ExtractResponseContent(llm_response)
            /\ (~sql /\ ~refusal) =>
                  sql_query = <<"Something went wrong. Please try again.">>
            /\ (/\ ~C8_SqlMarker(llm_response)
                /\ Count(llm_response, <<"<response>", "sorry", "</response>">>) = 1
                /\ Count(llm_response, <<"<response>">>) = 1)
               => sql_query = <<"sorry">>

\* a fenced SQL block with a query and a <response> refusal in one response
C8_Witness ==
    /\ pc = "processed"
    /\ Contains(llm_response, <<Fence, "sql", "NL", "SELECT">>)
    /\ Contains(llm_response, <<"<response>", "sorry", "</response>">>)
    /\ ExtractResponseContent(llm_response) = <<"sorry">>
    /\ sql_query = ModifyQuery(ExtractSql(llm_response), config)
    /\ Contains(sql_query, Clause)


(***************************************************************************)
(* Spec: one request through transformation() (src/T2SQL/predictor.py)     *)
(***************************************************************************)

MaxQueryPieces == 3

QueryPieces ==
    {<<"SELECT", "SP", "*", "SP">>, <<"DELETE", "SP">>, Clause,
     <<"SP", "WHERE", "SP", "x">>, <<";", "SP", "DROP", "SP", "t">>,
     <<"select", "SP", "x">>}

\* what the LLM may answer: a query in either wrapper, a refusal, a refusal
\* that mentions SELECT, bare text
LlmResponses ==
    {<<Fence, "sql", "NL">> \o q \o <<"NL", Fence>> :
        q \in Texts(QueryPieces, MaxQueryPieces)}
    \cup {<<"<generated_query>", "NL">> \o q \o <<"NL", "</generated_query>">> :
        q \in Texts(QueryPieces, MaxQueryPieces)}
    \cup {<<"<response>", "sorry", "</response>">>, <<"sorry">>,
          <<"<response>", "sorry", "SP", "SELECT", "SP", "x", "</response>">>}

\* replace_dict of the request: empty, or one entry
ReplaceDicts == {<<>>, <<[key |-> "x", value |-> "DROP"]>>}

\* pattern.sub(replace_match, modified_query)
ApplyReplace(d, q) ==
    [i \in 1..Len(q) |->
        IF \E k \in 1..Len(d) : d[k].key = q[i]
        THEN d[CHOOSE k \in 1..Len(d) : d[k].key = q[i]].value
        ELSE q[i]]

\* fetchmany(200_000)
FetchCap == 200000

\* row counts of a warehouse result
RowCounts == {0, 1, 2, FetchCap - 1, FetchCap, FetchCap + 1}

\* number of rows cursor.fetchmany(200_000) returns from a result of n rows
Fetchmany(n) == IF n < FetchCap THEN n ELSE FetchCap

\* the flag is raised one row early
LargeDataFlag_OffByOne(rows) == rows >= FetchCap - 1

\* True if df.shape[0] == 200_000 else False
LargeDataFlag(rows) == rows = FetchCap

LargeDataComment ==
    "File uploaded successfully - The cleaned report currently generates approximately 200,000 rows. Please refine your search criteria."

\* comments of upload_df_to_s3 after a successful put (line 195)
UploadComment(flag, rows) ==
    IF flag THEN LargeDataComment
    ELSE IF rows > 0 THEN "File uploaded successfully"
    ELSE "No data found"

RestrictedComment ==
    "Restricted operations are prohibited. Please ask criteria to pull the data from the database."

InvalidComment == "Invalid SQL syntax. Please provide your criteria again."

Init ==
    /\ pc = "request"
    /\ config = DefaultConfig
    /\ llm_calls = 0
    /\ query = <<>> /\ llm_response = <<>> /\ sql_query = <<>>
    /\ restricted = FALSE
    /\ status = "FAILED" /\ comments = ""
    /\ run_sql_calls = <<>> /\ uploads = 0 /\ session = ""
    /\ NoCriteria /\ NoFrame /\ NoExecution
    /\ NoConcurrent /\ NoFlow

\* lines 170-223: the request is read; a missing field raises, an empty
\* body returns at once
Receive ==
    /\ pc = "request"
    /\ \E outcome \in {"ok", "raise", "no_json"} :
        pc' = CASE outcome = "ok" -> "T2SQL"
                [] outcome = "raise" -> "except"
                [] OTHER -> "done"
    /\ UNCHANGED <<query, generatorVars, restricted, requestVars, criteriaVars, executionVars, frameVars,
                   concurrentVars, flowVars>>

\* lines 233-237: T2SQL returns the generator's record
CallT2SQL ==
    /\ pc = "T2SQL"
    /\ \E r \in LlmResponses :
        /\ llm_response' = r
        /\ sql_query' = ProcessLlmResponse(r, config)
    /\ llm_calls' = llm_calls + 1
    /\ pc' = "replace"
    /\ UNCHANGED <<query, config, restricted, requestVars, criteriaVars, executionVars, frameVars,
                   concurrentVars, flowVars>>

\* lines 58-79, 235: retrieval or prompt raised before the LLM call, or the
\* LLM call or the reading of its answer raised; T2SQL returns a string and
\* indexing it raises
CallT2SQLFails ==
    /\ pc = "T2SQL"
    /\ \E called \in BOOLEAN :
        llm_calls' = IF called THEN llm_calls + 1 ELSE llm_calls
    /\ pc' = "except"
    /\ UNCHANGED <<query, config, llm_response, sql_query, restricted, requestVars,
                   criteriaVars, executionVars, frameVars,
                   concurrentVars, flowVars>>

\* lines 239-251
Replace ==
    /\ pc = "replace"
    /\ \E d \in ReplaceDicts : query' = ApplyReplace(d, sql_query)
    /\ pc' = "metric"
    /\ UNCHANGED <<generatorVars, restricted, requestVars, criteriaVars, executionVars, frameVars,
                   concurrentVars, flowVars>>

\* line 258
UpsertMetric ==
    /\ pc = "metric"
    /\ \E ok \in BOOLEAN : pc' = IF ok THEN "process_query" ELSE "except"
    /\ UNCHANGED <<query, generatorVars, restricted, requestVars, criteriaVars, executionVars, frameVars,
                   concurrentVars, flowVars>>

\* process_query, lines 211-218 and 242-245
ProcessQuery ==
    /\ pc = "process_query"
    /\ restricted' = ContainsRestrictedOperations(query)
    /\ LET branch == ProcessQueryBranch(restricted', query)
       IN  /\ pc' = IF branch = "execute" THEN "connect" ELSE "session"
           /\ status' = "FAILED"
           /\ comments' = CASE branch = "restricted" -> RestrictedComment
                            [] branch = "invalid" -> InvalidComment
                            [] OTHER -> ""
    /\ UNCHANGED <<query, generatorVars, run_sql_calls, uploads, session, criteriaVars, executionVars, frameVars,
                   concurrentVars, flowVars>>

\* line 220: SnowflakeConnector() is built outside the try block
Connect ==
    /\ pc = "connect"
    /\ \E ok \in BOOLEAN : pc' = IF ok THEN "run_sql" ELSE "except"
    /\ UNCHANGED <<query, generatorVars, restricted, requestVars, criteriaVars, executionVars, frameVars,
                   concurrentVars, flowVars>>

\* the failed submission is tried again
AfterRunSql_Retry(ok) == IF ok THEN "postprocess" ELSE "run_sql"

\* where process_query goes on after run_sql: line 224, or the except
\* clause (lines 238-241), which returns
AfterRunSql(ok) == IF ok THEN "postprocess" ELSE "session"

\* line 223 and its except clause, lines 238-241: run_sql as one step, by
\* its outcome
RunSql ==
    /\ pc = "run_sql"
    /\ run_sql_calls' = Append(run_sql_calls, query)
    /\ \E ok \in BOOLEAN :
        IF ok
        THEN /\ pc' = AfterRunSql(ok)
             /\ result_rows' \in RowCounts
             /\ df_rows' = Fetchmany(result_rows')
             /\ UNCHANGED <<status, comments>>
        ELSE /\ pc' = AfterRunSql(ok)
             /\ status' = "FAILED"
             /\ comments' = "Error while executing query"
             /\ UNCHANGED <<result_rows, df_rows>>
    /\ UNCHANGED <<query, generatorVars, restricted, uploads, session, criteriaVars,
                   exec_log, large_data_flag, frameVars,
                   concurrentVars, flowVars>>

\* lines 224-237: the flag, post-processing of a non-empty frame, upload
PostProcessUpload ==
    /\ pc = "postprocess"
    /\ large_data_flag' = LargeDataFlag(df_rows)
    /\ \E outcome \in {"uploaded", "upload_failed", "raise"} :
       \E kept \in {n \in RowCounts : n <= df_rows} :
        /\ df_rows' = IF outcome = "raise" THEN df_rows ELSE kept
        /\ uploads' = IF outcome = "uploaded" THEN uploads + 1 ELSE uploads
        /\ status' = IF outcome = "uploaded" THEN "SUCCESS" ELSE "FAILED"
        /\ comments' = CASE outcome = "uploaded" -> UploadComment(large_data_flag', kept)
                         [] outcome = "upload_failed" -> "File upload failed"
                         [] OTHER -> "Error while executing query"
    /\ pc' = "session"
    /\ UNCHANGED <<query, generatorVars, restricted, run_sql_calls, session,
                   criteriaVars, exec_log, result_rows, frameVars,
                   concurrentVars, flowVars>>

\* line 264
UpdateSession ==
    /\ pc = "session"
    /\ \E ok \in BOOLEAN :
        IF ok THEN session' = status /\ pc' = "done"
        ELSE session' = session /\ pc' = "except"
    /\ UNCHANGED <<query, generatorVars, restricted, status, comments,
                   run_sql_calls, uploads, criteriaVars, executionVars, frameVars,
                   concurrentVars, flowVars>>

\* lines 269-273
Except ==
    /\ pc = "except"
    /\ comments' = "An error occurred while processing the request"
    /\ \E ok \in BOOLEAN :
        IF ok THEN session' = status /\ pc' = "done"
        ELSE session' = session /\ pc' = "raised"
    /\ UNCHANGED <<query, generatorVars, restricted, status, run_sql_calls,
                   uploads, criteriaVars, executionVars, frameVars,
                   concurrentVars, flowVars>>

Next ==
    \/ Receive \/ CallT2SQL \/ CallT2SQLFails \/ Replace \/ UpsertMetric
    \/ ProcessQuery \/ Connect \/ RunSql \/ PostProcessUpload
    \/ UpdateSession \/ Except

Spec == Init /\ [][Next]_vars

\* process_query has returned
C1_Returned == pc \in {"session", "done"} /\ comments # ""

\* C1: run_sql is invoked only for the text that process_query scanned, with
\* the scan having returned false and the text containing SELECT; whenever
\* the scan returned true or the text has no SELECT, process_query returns
\* FAILED, nothing was executed and nothing was uploaded.
C1_ExecuteOnlyCleanSelect ==
    /\ run_sql_calls # <<>> =>
          /\ run_sql_calls = <<query>>
          /\ ~restricted
          /\ \E i \in 1..Len(query) : query[i] = "SELECT"
    /\ (/\ pc \in {"connect", "run_sql", "postprocess", "session"}
        /\ restricted \/ ~\E i \in 1..Len(query) : query[i] = "SELECT")
       => /\ pc = "session"
          /\ status = "FAILED"
          /\ run_sql_calls = <<>>
          /\ uploads = 0

\* a restricted text that holds a SELECT was turned away
C1_Witness ==
    /\ pc = "session"
    /\ restricted
    /\ \E i \in 1..Len(query) : query[i] = "SELECT"
    /\ status = "FAILED" /\ comments = RestrictedComment
    /\ run_sql_calls = <<>> /\ uploads = 0

\* C3: for every SQL text of the LLM that holds a restricted keyword, the
\* pipeline detects the restricted operation and never executes the query.
C3_RestrictedNeverExecuted ==
    (/\ C8_SqlMarker(llm_response)
     /\ ContainsRestrictedOperations(ExtractSql(llm_response))) =>
        /\ run_sql_calls = <<>>
        /\ pc \in {"connect", "run_sql", "postprocess", "session"}
              => restricted


(***************************************************************************)
(* process_criteria (src/T2SQL/preprocess.py)                              *)
(*                                                                         *)
(* In criteria texts "SP" is one blank; "A", "B", "1", "2", "3" are words. *)
(***************************************************************************)

\* outer_delimiters
outer_delimiters == {":", "=", "<", ">"}

\* last position of a match of \s*;\s*|\s+OR\s+|\s+AND\s+ that starts at i,
\* 0 when there is none
SeparatorEnd(s, i) ==
    LET j == SkipWs(s, i)
    IN  IF j <= Len(s) /\ s[j] = ";"
        THEN SkipWs(s, j + 1) - 1
        ELSE IF /\ j > i /\ j < Len(s)
                /\ s[j] \in {"OR", "AND"}
                /\ s[j + 1] \in Whitespace
        THEN SkipWs(s, j + 1) - 1
        ELSE 0

\* re.split(r'\s*;\s*|\s+OR\s+|\s+AND\s+', input_str)
RECURSIVE criteria_segments(_)
criteria_segments(s) ==
    LET starts == {i \in 1..Len(s) : SeparatorEnd(s, i) > 0}
    IN  IF starts = {} THEN <<s>>
        ELSE LET i == Least(starts)
             IN  <<Before(s, i)>> \o criteria_segments(From(s, SeparatorEnd(s, i) + 1))

\* the list keeps its empty items
RECURSIVE values_KeepEmpty(_)
values_KeepEmpty(tail) ==
    LET commas == {i \in 1..Len(tail) : tail[i] = ","}
    IN  IF commas = {} THEN <<Strip(tail)>>
        ELSE <<Strip(Before(tail, Least(commas)))>>
             \o values_KeepEmpty(From(tail, Least(commas) + 1))

\* re.split(list_splitter, tail), each item stripped, empty items dropped
RECURSIVE values(_)
values(tail) ==
    LET commas == {i \in 1..Len(tail) : tail[i] = ","}
        first == IF commas = {} THEN tail ELSE Before(tail, Least(commas))
        item == IF Strip(first) = <<>> THEN <<>> ELSE <<Strip(first)>>
    IN  IF commas = {} THEN item
        ELSE item \o values(From(tail, Least(commas) + 1))

\* a segment without a delimiter is given an entry with an empty value list
key_value_KeepsBareSegment(segment) ==
    LET seg == Strip(segment)
        ds == {i \in 1..Len(seg) : seg[i] \in outer_delimiters}
    IN  IF seg = <<>> THEN <<>>
        ELSE IF ds = {} THEN <<[key |-> seg, values |-> <<>>]>>
        ELSE <<[key |-> Strip(Before(seg, Least(ds))),
                values |-> values(Strip(From(seg, Least(ds) + 1)))]>>

\* the entry one segment yields (lines 30-44): <<>> when the segment is
\* skipped, else <<[key, values]>>
key_value(segment) ==
    LET seg == Strip(segment)
        ds == {i \in 1..Len(seg) : seg[i] \in outer_delimiters}
    IN  IF seg = <<>> \/ ds = {} THEN <<>>
        ELSE <<[key |-> Strip(Before(seg, Least(ds))),
                values |-> values(Strip(From(seg, Least(ds) + 1)))]>>

\* dict.setdefault: an existing key keeps its value list
DictAssign_KeepFirst(d, key, vals) ==
    IF \E k \in 1..Len(d) : d[k].key = key THEN d
    ELSE Append(d, [key |-> key, values |-> vals])

\* result_dict[key] = values on an insertion-ordered dict
DictAssign(d, key, vals) ==
    IF \E k \in 1..Len(d) : d[k].key = key
    THEN [k \in 1..Len(d) |->
            IF d[k].key = key THEN [key |-> key, values |-> vals] ELSE d[k]]
    ELSE Append(d, [key |-> key, values |-> vals])

\* the loop of lines 28-47 over the remaining segments
RECURSIVE ProcessSegments(_, _)
ProcessSegments(segs, d) ==
    IF segs = <<>> THEN d
    ELSE LET kv == key_value(Head(segs))
         IN  ProcessSegments(Tail(segs),
                 IF kv = <<>> THEN d ELSE DictAssign(d, kv[1].key, kv[1].values))

process_criteria(s) == ProcessSegments(criteria_segments(s), <<>>)

MaxCriteriaPieces == 5

CriteriaPieces ==
    {<<"A", ":", "1">>, <<"A", "=", "2", ",", "SP", "3">>, <<"B", ">", "1">>,
     <<"B">>, <<";">>, <<",">>, <<"SP", "OR", "SP">>, <<"SP", "AND", "SP">>}

\* 'A:1, 2 ; B=3'
CriteriaExample ==
    <<"A", ":", "1", ",", "SP", "2", "SP", ";", "SP", "B", "=", "3">>

InitCriteria ==
    /\ pc = "criteria"
    /\ input_is_str \in BOOLEAN
    /\ input_str \in Texts(CriteriaPieces, MaxCriteriaPieces) \cup {CriteriaExample}
    /\ ~input_is_str => input_str = <<>>
    /\ result_dict = <<>> /\ reordered = <<>>
    /\ query = <<>> /\ restricted = FALSE
    /\ NoFrame /\ NoExecution /\ NoRequest /\ NoGenerator
    /\ NoConcurrent /\ NoFlow

\* lines 15-49
ProcessCriteria ==
    /\ pc = "criteria"
    /\ input_is_str
    /\ result_dict' = process_criteria(input_str)
    /\ pc' = "returned"
    /\ UNCHANGED <<query, generatorVars, restricted, requestVars, input_str,
                   input_is_str, reordered, executionVars, frameVars,
                   concurrentVars, flowVars>>

\* lines 17-18 and 51-52
ProcessCriteriaRaises ==
    /\ pc = "criteria"
    /\ ~input_is_str
    /\ pc' = "raised"
    /\ UNCHANGED <<query, generatorVars, restricted, requestVars, criteriaVars, executionVars, frameVars,
                   concurrentVars, flowVars>>

NextCriteria == ProcessCriteria \/ ProcessCriteriaRaises

SpecCriteria == InitCriteria /\ [][NextCriteria]_vars

\* the segments of the input that carry a key, in text order
C9_Keyed ==
    LET segs == criteria_segments(input_str)
        idx == {k \in 1..Len(segs) : key_value(segs[k]) # <<>>}
        nth(n) == CHOOSE k \in idx : Cardinality({j \in idx : j < k}) = n - 1
    IN  [n \in 1..Cardinality(idx) |-> key_value(segs[nth(n)])[1]]

\* the entries of keyed that carry key
C9_Occurrences(keyed, key) == {k \in 1..Len(keyed) : keyed[k].key = key}

\* keys are unique, every key of the text is present, and the entries
\* stand in the order in which their keys first occur in the text
C9_KeysInFirstOccurrenceOrder(keyed) ==
    /\ \A n \in 1..Len(result_dict) : C9_Occurrences(keyed, result_dict[n].key) # {}
    /\ \A m, n \in 1..Len(result_dict) :
          m < n => /\ result_dict[m].key # result_dict[n].key
                   /\ Least(C9_Occurrences(keyed, result_dict[m].key))
                        < Least(C9_Occurrences(keyed, result_dict[n].key))
    /\ \A k \in 1..Len(keyed) :
          \E n \in 1..Len(result_dict) : result_dict[n].key = keyed[k].key

\* C9 as stated: a key that appears in several segments holds the value list
\* of the first such segment and stands at the position of its first
\* occurrence.
C9_FirstOccurrenceWins ==
    pc = "returned" =>
        LET keyed == C9_Keyed
        IN  /\ C9_KeysInFirstOccurrenceOrder(keyed)
            /\ \A n \in 1..Len(result_dict) :
                  result_dict[n].values
                    = keyed[Least(C9_Occurrences(keyed, result_dict[n].key))].values

\* C9 amended: a key that appears in several segments holds the value list
\* of the last such segment, and stands at the position of its first
\* occurrence.
C9_LastValuesAtFirstPosition ==
    pc = "returned" =>
        LET keyed == C9_Keyed
        IN  /\ C9_KeysInFirstOccurrenceOrder(keyed)
            /\ \A n \in 1..Len(result_dict) :
                  result_dict[n].values
                    = keyed[Greatest(C9_Occurrences(keyed, result_dict[n].key))].values

\* a key is given twice with different value lists, another key in between
C9_Witness ==
    /\ pc = "returned"
    /\ Len(result_dict) >= 2
    /\ LET keyed == C9_Keyed
       IN  \E a, b, c \in 1..Len(keyed) :
              /\ a < b /\ b < c
              /\ keyed[a].key = result_dict[1].key
              /\ keyed[b].key = result_dict[2].key
              /\ keyed[c].key = result_dict[1].key
              /\ keyed[a].values # keyed[c].values

\* key stands in the text right before a delimiter
C10_KeyBeforeDelimiter(key) ==
    \E d \in 1..Len(input_str) :
        /\ input_str[d] \in outer_delimiters
        /\ \E a \in 1..d : key = Strip(SubSeq(input_str, a, d - 1))

\* C10: for a string input process_criteria returns without raising, and a
\* segment without ':', '=', '<' or '>' contributes no key: every key of the
\* result stands before a delimiter in the text, and there are no more keys
\* than delimiters.
C10_NoRaiseNoKeyWithoutDelimiter ==
    /\ input_is_str => pc # "raised"
    /\ pc = "returned" =>
          /\ \A n \in 1..Len(result_dict) :
                C10_KeyBeforeDelimiter(result_dict[n].key)
          /\ Len(result_dict)
                <= Cardinality({d \in 1..Len(input_str) :
                                   input_str[d] \in outer_delimiters})

\* a text with a delimiter-less segment next to a keyed one was parsed
C10_Witness ==
    /\ pc = "returned"
    /\ input_is_str
    /\ Len(result_dict) = 1
    /\ \E k \in 1..Len(criteria_segments(input_str)) :
          LET seg == criteria_segments(input_str)[k]
          IN  /\ Strip(seg) # <<>>
              /\ \A i \in 1..Len(seg) : seg[i] \notin outer_delimiters


\* last position before j that holds no whitespace, 0 when there is none
C11_PrevNonWs(s, j) ==
    LET S == {k \in 1..(j - 1) : s[k] \notin Whitespace}
    IN  IF S = {} THEN 0 ELSE Greatest(S)

\* the positions of the separators of the text: every ';', and every OR or
\* AND that has whitespace on both sides which no earlier separator took
C11_Separators(s) ==
    LET sep[j \in 0..Len(s)] ==
            IF j = 0 THEN FALSE
            ELSE \/ s[j] = ";"
                 \/ /\ s[j] \in {"OR", "AND"}
                    /\ j > 1 /\ j < Len(s)
                    /\ s[j - 1] \in Whitespace /\ s[j + 1] \in Whitespace
                    /\ ~sep[C11_PrevNonWs(s, j)]
    IN  {j \in 1..Len(s) : sep[j]}

\* the segments of the text that hold a delimiter, as <<first, last>> positions
C11_KeyedSpans(s) ==
    LET seps == C11_Separators(s)
    IN  {sp \in (1..(Len(s) + 1)) \X (0..Len(s)) :
            /\ sp[1] = 1 \/ (sp[1] - 1) \in seps
            /\ sp[2] >= sp[1] - 1
            /\ sp[2] = Len(s) \/ (sp[2] + 1) \in seps
            /\ \A k \in sp[1]..sp[2] : k \notin seps
            /\ \E d \in sp[1]..sp[2] : s[d] \in {":", "=", "<", ">"}}

\* position of the first delimiter of a span
C11_Delimiter(s, sp) == Least({d \in sp[1]..sp[2] : s[d] \in {":", "=", "<", ">"}})

\* the trimmed key of a span
C11_Key(s, sp) == Strip(SubSeq(s, sp[1], C11_Delimiter(s, sp) - 1))

\* the trimmed non-empty comma-separated items of a span's tail, in order
C11_Items(s, sp) ==
    LET d == C11_Delimiter(s, sp)
        item(c) == LET ends == {e \in c..sp[2] : s[e] = ","}
                   IN  Strip(SubSeq(s, c, IF ends = {} THEN sp[2] ELSE Least(ends) - 1))
        starts == {c \in (d + 1)..(sp[2] + 1) :
                      /\ c = d + 1 \/ s[c - 1] = ","
                      /\ item(c) # <<>>}
        nth(n) == CHOOSE c \in starts : Cardinality({x \in starts : x < c}) = n - 1
    IN  [n \in 1..Cardinality(starts) |-> item(nth(n))]

\* C11: the text is split into segments on ';', ' OR ' and ' AND '; each
\* segment is split once at its first ':', '=', '<' or '>' into a trimmed key
\* and a tail; the key maps to the tail's comma-separated items, trimmed, in
\* order, empty items discarded (the list of the key's last segment when the
\* key is repeated); 'A:1, 2 ; B=3' gives A -> [1, 2], B -> [3].
C11_SegmentsKeysAndItems ==
    pc = "returned" =>
        LET spans == C11_KeyedSpans(input_str)
        IN  /\ {result_dict[n].key : n \in 1..Len(result_dict)}
                 = {C11_Key(input_str, sp) : sp \in spans}
            /\ \A n \in 1..Len(result_dict) :
                  LET mine == {sp \in spans : C11_Key(input_str, sp) = result_dict[n].key}
                      last == CHOOSE sp \in mine : \A o \in mine : o[1] <= sp[1]
                  IN  result_dict[n].values = C11_Items(input_str, last)
            /\ input_str = CriteriaExample =>
                  result_dict = <<[key |-> <<"A">>, values |-> <<<<"1">>, <<"2">>>>],
                                  [key |-> <<"B">>, values |-> <<<<"3">>>>]>>

\* the reference text was parsed
C11_Witness ==
    /\ pc = "returned"
    /\ input_str = CriteriaExample
    /\ Len(result_dict) = 2


(***************************************************************************)
(* reorder_criteria (src/T2SQL/preprocess.py)                              *)
(***************************************************************************)

order_of_prefixes == <<"DDC_CD", "DDC_DTL", "DDC_EA1", "DDC_EA2", "DDC_EA3">>

\* str.startswith(prefix) for a text that begins with the word atom a
AtomStartsWith(a, prefix) ==
    CASE prefix = "DDC_CD" -> a \in {"DDC_CD_HCID", "DDC_CD_CLM_TYPE"}
      [] prefix = "DDC_DTL" -> a = "DDC_DTL_PRCDR_CDE"
      [] prefix = "DDC_EA1" -> a = "DDC_EA1_CDE"
      [] prefix = "DDC_EA2" -> a = "DDC_EA2_CDE"
      [] prefix = "DDC_EA3" -> a = "DDC_EA3_CDE"
      [] OTHER -> FALSE

\* [crit.strip() for crit in criteria.split(';') if crit.strip()]
RECURSIVE criteria_list(_)
criteria_list(s) ==
    LET semis == {i \in 1..Len(s) : s[i] = ";"}
        first == IF semis = {} THEN s ELSE Before(s, Least(semis))
        crit == IF Strip(first) = <<>> THEN <<>> ELSE <<Strip(first)>>
    IN  IF semis = {} THEN crit
        ELSE crit \o criteria_list(From(s, Least(semis) + 1))

\* sort_key(crit)
sort_key(crit) ==
    LET hits == {i \in 1..Len(order_of_prefixes) :
                    AtomStartsWith(crit[1], order_of_prefixes[i])}
    IN  IF hits = {} THEN Len(order_of_prefixes) ELSE Least(hits) - 1

\* a sort by sort_key that reverses the segments of equal key
sorted_Unstable(list) ==
    LET rank(i) == Cardinality({j \in 1..Len(list) :
                        \/ sort_key(list[j]) < sort_key(list[i])
                        \/ sort_key(list[j]) = sort_key(list[i]) /\ j > i})
    IN  [p \in 1..Len(list) |-> list[CHOOSE i \in 1..Len(list) : rank(i) = p - 1]]

\* sorted(criteria_list, key=sort_key): by key, one key after the other, the
\* segments of one key in list order
sorted(list) ==
    LET bucket(k) == SelectSeq(list, LAMBDA crit : sort_key(crit) = k)
    IN  bucket(0) \o bucket(1) \o bucket(2) \o bucket(3) \o bucket(4) \o bucket(5)

\* the value reorder_criteria returns
reorder_criteria(criteria) == Join(<<";">>, sorted(criteria_list(criteria)))

MaxReorderPieces == 4

ReorderPieces ==
    {<<"DDC_CD_HCID", ";">>, <<"DDC_CD_CLM_TYPE", ";">>,
     <<"DDC_DTL_PRCDR_CDE", ";">>, <<"DDC_EA1_CDE", ";">>, <<"DDC_EA2_CDE", ";">>,
     <<"DDC_EA3_CDE", ";">>, <<"DDC_EOB_CDE", ";">>, <<"claim_number", ";">>,
     <<"x", "SP">>, <<"SP">>, <<";">>}

InitReorder ==
    /\ pc = "reorder"
    /\ input_is_str \in BOOLEAN
    /\ input_str \in Texts(ReorderPieces, MaxReorderPieces)
    /\ ~input_is_str => input_str = <<>>
    /\ result_dict = <<>> /\ reordered = <<>>
    /\ query = <<>> /\ restricted = FALSE
    /\ NoFrame /\ NoExecution /\ NoRequest /\ NoGenerator
    /\ NoConcurrent /\ NoFlow

\* lines 77-92
ReorderCriteria ==
    /\ pc = "reorder"
    /\ input_is_str
    /\ reordered' = reorder_criteria(input_str)
    /\ pc' = "returned"
    /\ UNCHANGED <<query, generatorVars, restricted, requestVars, input_str,
                   input_is_str, result_dict, executionVars, frameVars,
                   concurrentVars, flowVars>>

\* lines 74-75
ReorderCriteriaRaises ==
    /\ pc = "reorder"
    /\ ~input_is_str
    /\ pc' = "raised"
    /\ UNCHANGED <<query, generatorVars, restricted, requestVars, criteriaVars, executionVars, frameVars,
                   concurrentVars, flowVars>>

NextReorder == ReorderCriteria \/ ReorderCriteriaRaises

SpecReorder == InitReorder /\ [][NextReorder]_vars

\* the non-empty trimmed segments of the text between its ';', in text order
C12_Segments(s) ==
    LET seg(a) == LET ends == {e \in a..Len(s) : s[e] = ";"}
                  IN  Strip(SubSeq(s, a, IF ends = {} THEN Len(s) ELSE Least(ends) - 1))
        starts == {a \in 1..(Len(s) + 1) :
                      /\ a = 1 \/ s[a - 1] = ";"
                      /\ seg(a) # <<>>}
        nth(n) == CHOOSE a \in starts : Cardinality({x \in starts : x < a}) = n - 1
    IN  [n \in 1..Cardinality(starts) |-> seg(nth(n))]

\* priority of a segment: the index of the prefix it starts with, 6 for none
C12_Priority(seg) ==
    IF \E i \in 1..5 : AtomStartsWith(seg[1], order_of_prefixes[i])
    THEN CHOOSE i \in 1..5 : AtomStartsWith(seg[1], order_of_prefixes[i])
    ELSE 6

\* C12: reorder_criteria returns the ';'-joined permutation of the non-empty
\* trimmed segments of its input, ordered by the priority of their prefix;
\* segments of equal priority, unmatched ones included, keep their input order.
C12_StableByPrefixPriority ==
    pc = "returned" =>
        LET segs == C12_Segments(input_str)
            n == Len(segs)
            before(j, i) == \/ C12_Priority(segs[j]) < C12_Priority(segs[i])
                            \/ C12_Priority(segs[j]) = C12_Priority(segs[i]) /\ j < i
            place(i) == 1 + Cardinality({j \in 1..n : before(j, i)})
            out == [p \in 1..n |-> segs[CHOOSE i \in 1..n : place(i) = p]]
        IN  reordered = Join(<<";">>, out)

\* two segments of one priority and an earlier segment of a later priority
\* were reordered
C12_Witness ==
    /\ pc = "returned"
    /\ LET segs == C12_Segments(input_str)
       IN  /\ Len(segs) = 3
           /\ C12_Priority(segs[1]) > C12_Priority(segs[2])
           /\ C12_Priority(segs[2]) = C12_Priority(segs[3])
           /\ segs[2] # segs[3]
           /\ reordered = segs[2] \o <<";">> \o segs[3] \o <<";">> \o segs[1]


(***************************************************************************)
(* SnowflakeConnector.run_sql (src/T2SQL/snowflake_connector.py)           *)
(***************************************************************************)

MaxPolls == 3

\* str(status).split(".")[-1] for the statuses the warehouse reports
QueryStatuses == {"RUNNING", "QUEUED", "SUCCESS", "FAILED_WITH_ERROR", "ABORTED"}

\* statuses of a query that the warehouse will not change again
FinalStatuses == {"SUCCESS", "FAILED_WITH_ERROR", "ABORTED"}

\* a failure status ends the loop like SUCCESS
PollOutcome_FailedBreaks(st) ==
    CASE st = "RUNNING" -> "sleep"
      [] st \in {"SUCCESS", "FAILED_WITH_ERROR"} -> "break"
      [] OTHER -> "continue"

\* the branch of the poll loop taken for a status (lines 88-98)
PollOutcome(st) ==
    CASE st = "RUNNING" -> "sleep"
      [] st = "FAILED_WITH_ERROR" -> "raise"
      [] st = "SUCCESS" -> "break"
      [] OTHER -> "continue"

Call(op) == [op |-> op, status |-> ""]

Polls(log) == {i \in 1..Len(log) : log[i].op = "get_query_status"}

\* the status the last poll observed, "" before the first poll
LastStatus(log) ==
    IF Polls(log) = {} THEN "" ELSE log[Greatest(Polls(log))].status

InitRunSql ==
    /\ pc = "run_sql"
    /\ query = <<"SELECT", "SP", "x">>
    /\ result_rows \in RowCounts
    /\ exec_log = <<>> /\ df_rows = 0 /\ large_data_flag = FALSE
    /\ restricted = FALSE /\ NoFrame
    /\ NoConcurrent /\ NoFlow
    /\ NoRequest /\ NoGenerator /\ NoCriteria

\* lines 77-79: the query is submitted
ExecuteAsync ==
    /\ pc = "run_sql"
    /\ exec_log' = Append(exec_log, Call("execute_async"))
    /\ run_sql_calls' = Append(run_sql_calls, query)
    /\ \E ok \in BOOLEAN : pc' = IF ok THEN "poll" ELSE "raised"
    /\ UNCHANGED <<query, generatorVars, restricted, status, comments, uploads,
                   session, criteriaVars, result_rows, df_rows, large_data_flag, frameVars,
                   concurrentVars, flowVars>>

\* lines 85-98: one turn of the poll loop
GetQueryStatus ==
    /\ pc = "poll"
    /\ Cardinality(Polls(exec_log)) < MaxPolls
    /\ \E st \in QueryStatuses :
        /\ LastStatus(exec_log) \in FinalStatuses => st = LastStatus(exec_log)
        /\ LET polled == Append(exec_log, [op |-> "get_query_status", status |-> st])
               outcome == PollOutcome(st)
           IN  /\ exec_log' = IF outcome = "sleep"
                              THEN Append(polled, Call("sleep"))
                              ELSE polled
               /\ pc' = CASE outcome = "raise" -> "raised"
                          [] outcome = "break" -> "fetch"
                          [] OTHER -> "poll"
    /\ UNCHANGED <<query, generatorVars, restricted, requestVars, criteriaVars,
                   result_rows, df_rows, large_data_flag, frameVars,
                   concurrentVars, flowVars>>

\* line 85 raises
GetQueryStatusRaises ==
    /\ pc = "poll"
    /\ Cardinality(Polls(exec_log)) < MaxPolls
    /\ LastStatus(exec_log) \notin FinalStatuses
    /\ pc' = "raised"
    /\ UNCHANGED <<query, generatorVars, restricted, requestVars, criteriaVars,
                   executionVars, frameVars,
                   concurrentVars, flowVars>>

\* lines 101-104: the rows are fetched and the frame is returned
Fetch ==
    /\ pc = "fetch"
    /\ exec_log' = Append(exec_log, Call("fetchmany"))
    /\ \E ok \in BOOLEAN :
        IF ok THEN /\ df_rows' = Fetchmany(result_rows)
                   /\ pc' = "returned"
        ELSE df_rows' = df_rows /\ pc' = "raised"
    /\ UNCHANGED <<query, generatorVars, restricted, requestVars, criteriaVars,
                   result_rows, large_data_flag, frameVars,
                   concurrentVars, flowVars>>

NextRunSql == ExecuteAsync \/ GetQueryStatus \/ GetQueryStatusRaises \/ Fetch

SpecRunSql == InitRunSql /\ [][NextRunSql]_vars

\* positions of the log at which a poll observed status st
C13_Observed(st) == {i \in Polls(exec_log) : exec_log[i].status = st}

SpecRunSqlLive == SpecRunSql /\ WF_vars(NextRunSql)

\* C24: once the warehouse has reported a status that will not change again
\* (success, failure or any other final status), run_sql eventually returns a
\* frame or raises.
C24_TerminalStatusEndsPolling ==
    (LastStatus(exec_log) \in FinalStatuses) ~> (pc \in {"returned", "raised"})

\* C25: between any two consecutive status polls of an execution run_sql
\* sleeps, whatever non-terminal status the earlier poll observed.
C25_SleepBetweenPolls ==
    \A i \in Polls(exec_log), j \in Polls(exec_log) :
        (i < j /\ \A k \in Polls(exec_log) : ~(i < k /\ k < j))
            => \E k \in (i + 1)..(j - 1) : exec_log[k].op = "sleep"

C14_FlagIffFetchedEqualsCap ==
    LET fetched == IF result_rows < 200000 THEN result_rows ELSE 200000
    IN  /\ df_rows <= 200000
        /\ pc = "postprocess" => df_rows = fetched
        /\ pc # "postprocess" => (large_data_flag <=> fetched = 200000)
        /\ (pc = "session" /\ status = "SUCCESS") =>
              ((comments = LargeDataComment) <=> fetched = 200000)

\* a full fetch was post-processed down to fewer rows and uploaded
C14_Witness ==
    /\ pc = "session"
    /\ status = "SUCCESS"
    /\ result_rows > 200000
    /\ df_rows = 1
    /\ large_data_flag
    /\ comments = LargeDataComment


\* C21: no automatic retry: within one request the LLM is called at most
\* once and the SQL is submitted to the warehouse at most once; a failed LLM
\* call ends the request FAILED with nothing submitted or uploaded, a failed
\* execution ends it FAILED with nothing uploaded.
C21_NoRetry ==
    /\ llm_calls <= 1
    /\ Len(run_sql_calls) <= 1
    /\ (pc \in {"except", "done", "raised"} /\ llm_calls = 1 /\ llm_response = <<>>)
          => (run_sql_calls = <<>> /\ uploads = 0 /\ status = "FAILED")
    /\ (pc = "session" /\ comments = "Error while executing query")
          => (Len(run_sql_calls) = 1 /\ uploads = 0 /\ status = "FAILED")
    /\ (pc = "done" /\ uploads = 0 /\ session # "") => session = "FAILED"

\* the LLM was called once, the one submission failed, and the request has
\* ended FAILED
C21_Witness ==
    /\ pc = "done" /\ llm_calls = 1 /\ Len(run_sql_calls) = 1
    /\ comments = "Error while executing query"
    /\ uploads = 0 /\ session = "FAILED"

\* C27: when the LLM response carries no SQL wrapper, so that the generator
\* returns the text of a <response> wrapper or the fixed message, that text is
\* never submitted to the warehouse, no report is uploaded, and the request
\* ends with status FAILED.
C27_RefusalNeverExecuted ==
    (/\ llm_response # <<>>
     /\ ~Contains(llm_response, <<Fence, "sql">>)
     /\ ~Contains(llm_response, <<"<generated_query>">>)) =>
        /\ run_sql_calls = <<>>
        /\ uploads = 0
        /\ pc = "done" => status = "FAILED"

\* C15: whatever step of a request fails, no exception leaves
\* transformation, and when the handler has finished the session record
\* holds the final status, which is SUCCESS or FAILED.
C15_NoEscapeSessionUpdated ==
    /\ pc # "raised"
    /\ pc = "done" => session = status /\ session \in {"SUCCESS", "FAILED"}


(***************************************************************************)
(* SQLProcessor.process_dataframe (src/T2SQL/sql_processor.py)             *)
(*                                                                         *)
(* A frame is a sequence of rows; a row maps column names to values.       *)
(***************************************************************************)

\* the rows of frame at the positions in keep, in frame order
Subframe(frame, keep) ==
    LET nth(n) == CHOOSE i \in keep : Cardinality({j \in keep : j < i}) = n - 1
    IN  [n \in 1..Cardinality(keep) |-> frame[nth(n)]]

\* df.drop(columns=exclude_columns, errors='ignore')
DropColumns(frame, columns) ==
    [i \in 1..Len(frame) |->
        [c \in (DOMAIN frame[i]) \ columns |-> frame[i][c]]]

\* df.drop_duplicates(): the first of equal rows is kept
DropDuplicates(frame) ==
    Subframe(frame, {i \in 1..Len(frame) : \A j \in 1..(i - 1) : frame[j] # frame[i]})

\* str.startswith('DEL') on the values of DDC_CD_CLM_PAY_ACT_2_6
StartsWithDEL(v) == v \in {"DEL", "DELET"}

\* the row filter of line 128
Accepted(row) ==
    /\ row.GNCHIIOS_HCLM_ITEM_CDE \in {"80", "84"}
    /\ ~StartsWithDEL(row.DDC_CD_CLM_PAY_ACT_2_6)

\* the minimum is taken over all rows of the claim, rejected ones included
min_seq_AllRows(frame, filtered, dcn) ==
    Least({frame[i].GNCHIIOS_HCLM_SEQ_NBR : i \in
              {j \in 1..Len(frame) : frame[j].GNCHIIOS_HCLM_DCN = dcn}})

\* filtered_df.groupby('GNCHIIOS_HCLM_DCN')['GNCHIIOS_HCLM_SEQ_NBR'].min()
min_seq(frame, filtered, dcn) ==
    Least({filtered[i].GNCHIIOS_HCLM_SEQ_NBR : i \in
              {j \in 1..Len(filtered) : filtered[j].GNCHIIOS_HCLM_DCN = dcn}})

\* 'X' is missing from the MX_PAR list
ParCondition_WithoutX(row) ==
    \/ /\ row.DDC_CD_ITS_HOME_IND = "Y"
       /\ row.DDC_CD_PRVDR_IND \in
            {"A", "B", "C", "H", "I", "K", "M", "Y", "G", "O", "P", "Z", "S", "V",
             "E", "F", "R", "T", "U", "W"}
    \/ /\ row.DDC_CD_ITS_HOME_IND # "Y"
       /\ \/ row.DDC_CD_PAR_KEYED_IND \in {"P", "Y"}
          \/ row.DDC_CD_MX_PAR_IND \in {"Y", "E", "T", "F", "U", "2", "1"}

\* the first condition of np.select (lines 145-158)
ParCondition(row) ==
    \/ /\ row.DDC_CD_ITS_HOME_IND = "Y"
       /\ row.DDC_CD_PRVDR_IND \in
            {"A", "B", "C", "H", "I", "K", "M", "Y", "G", "O", "P", "Z", "S", "V",
             "E", "F", "R", "T", "U", "W"}
    \/ /\ row.DDC_CD_ITS_HOME_IND # "Y"
       /\ \/ row.DDC_CD_PAR_KEYED_IND \in {"P", "Y"}
          \/ row.DDC_CD_MX_PAR_IND \in {"Y", "E", "X", "T", "F", "U", "2", "1"}

\* the second condition of np.select (lines 160-171)
NonParCondition(row) ==
    \/ /\ row.DDC_CD_ITS_HOME_IND = "Y"
       /\ row.DDC_CD_PRVDR_IND \in {"N", "D", "L"}
    \/ /\ row.DDC_CD_ITS_HOME_IND # "Y"
       /\ row.DDC_CD_PAR_KEYED_IND \in {"N"}
    \/ row.DDC_CD_MX_PAR_IND \in {"N", "D"}

\* the non-participating condition is tried first
PrvdrStatus_NonParFirst(row) ==
    IF NonParCondition(row) THEN "NON-PAR"
    ELSE IF ParCondition(row) THEN "PAR"
    ELSE "NON-PAR"

\* np.select(conditions, ['PAR', 'NON-PAR'], default='NON-PAR')
PrvdrStatus(row) ==
    IF ParCondition(row) THEN "PAR"
    ELSE IF NonParCondition(row) THEN "NON-PAR"
    ELSE "NON-PAR"

\* the columns of lines 134-136 and 175, set on one row
Derived(row) ==
    [c \in (DOMAIN row) \cup {"DDC_CD_CLM_PAY_ACT", "ADJUDICATE_MODE", "PRVDR_STATUS"} |->
        CASE c = "DDC_CD_CLM_PAY_ACT" ->
                <<row.DDC_CD_CLM_PAY_ACT_1, row.DDC_CD_CLM_PAY_ACT_2_6>>
          [] c = "ADJUDICATE_MODE" ->
                IF row.DDC_CD_HOW_ADJUD_CDE = "A" THEN "AUTO" ELSE "MANUAL"
          [] c = "PRVDR_STATUS" -> PrvdrStatus(row)
          [] OTHER -> row[c]]

\* report types lookup_mapping.json has exclude_columns for
ConfiguredReportTypes == {"claim", "line"}

\* the frame process_dataframe returns
process_dataframe(frame, type, excluded) ==
    LET dropped == DropColumns(frame, excluded)
        deduped == IF type = "claim" THEN DropDuplicates(dropped) ELSE dropped
        filtered_df == Subframe(deduped, {i \in 1..Len(deduped) : Accepted(deduped[i])})
        grouped_df == Subframe(filtered_df,
            {i \in 1..Len(filtered_df) :
                filtered_df[i].GNCHIIOS_HCLM_SEQ_NBR
                  = min_seq(deduped, filtered_df, filtered_df[i].GNCHIIOS_HCLM_DCN)})
    IN  [i \in 1..Len(grouped_df) |-> Derived(grouped_df[i])]

\* a row of the warehouse result
Row(dcn, seq, item, pay, dtl, home, prvdr, keyed, mx) ==
    [GNCHIIOS_HCLM_DCN |-> dcn, GNCHIIOS_HCLM_SEQ_NBR |-> seq,
     GNCHIIOS_HCLM_ITEM_CDE |-> item, DDC_CD_CLM_PAY_ACT_1 |-> "P",
     DDC_CD_CLM_PAY_ACT_2_6 |-> pay, DDC_CD_HOW_ADJUD_CDE |-> "A",
     DDC_DTL_PRCDR_CDE |-> dtl, DDC_CD_ITS_HOME_IND |-> home,
     DDC_CD_PRVDR_IND |-> prvdr, DDC_CD_PAR_KEYED_IND |-> keyed,
     DDC_CD_MX_PAR_IND |-> mx]

MaxRows == 2

\* rows that differ in claim, sequence number, acceptance and a detail column
ClaimRows ==
    {Row(dcn, seq, ip[1], ip[2], dtl, "Y", "A", "", "") :
        dcn \in {"dcn1", "dcn2"}, seq \in 1..2,
        ip \in {<<"80", "PAID">>, <<"84", "PAID">>, <<"81", "PAID">>, <<"80", "DELET">>},
        dtl \in {"a", "b"}}

RECURSIVE Frames(_, _)
Frames(rows, n) ==
    IF n = 0 THEN {<<>>}
    ELSE LET shorter == Frames(rows, n - 1)
         IN  shorter \cup {Append(f, r) : f \in {g \in shorter : Len(g) = n - 1}, r \in rows}

InitDataframe ==
    /\ pc = "process_dataframe"
    /\ df \in Frames(ClaimRows, MaxRows)
    /\ reportType \in {"claim", "line", "summary"}
    /\ exclude_columns \in {{}, {"DDC_DTL_PRCDR_CDE"}}
    /\ limit_values = <<>> /\ out_df = <<>>
    /\ query = <<>> /\ restricted = FALSE
    /\ NoExecution /\ NoRequest /\ NoGenerator /\ NoCriteria
    /\ NoConcurrent /\ NoFlow

\* lines 115-178
ProcessDataframe ==
    /\ pc = "process_dataframe"
    /\ reportType \in ConfiguredReportTypes
    /\ out_df' = process_dataframe(df, reportType, exclude_columns)
    /\ pc' = "returned"
    /\ UNCHANGED <<query, generatorVars, restricted, requestVars, criteriaVars,
                   executionVars, df, reportType, exclude_columns, limit_values,
                   concurrentVars, flowVars>>

\* line 119: the configuration has no entry for the report type
ProcessDataframeRaises ==
    /\ pc = "process_dataframe"
    /\ reportType \notin ConfiguredReportTypes
    /\ pc' = "raised"
    /\ UNCHANGED <<query, generatorVars, restricted, requestVars, criteriaVars,
                   executionVars, frameVars,
                   concurrentVars, flowVars>>

NextDataframe == ProcessDataframe \/ ProcessDataframeRaises

SpecDataframe == InitDataframe /\ [][NextDataframe]_vars

\* C16: for report type 'claim' the returned frame holds at most one row per
\* claim identifier, for every input frame.
C16_OneRowPerClaim ==
    (pc = "returned" /\ reportType = "claim") =>
        \A i, j \in 1..Len(out_df) :
            i # j => out_df[i].GNCHIIOS_HCLM_DCN # out_df[j].GNCHIIOS_HCLM_DCN

\* positions of the input rows of claim dcn that pass the filter
C17_AcceptedRows(dcn) ==
    {i \in 1..Len(df) :
        /\ df[i].GNCHIIOS_HCLM_DCN = dcn
        /\ df[i].GNCHIIOS_HCLM_ITEM_CDE \in {"80", "84"}
        /\ df[i].DDC_CD_CLM_PAY_ACT_2_6 \notin {"DEL", "DELET"}}

\* C17: every returned row has an original/adjusted flag in {'80','84'}, a
\* DDC_CD_CLM_PAY_ACT_2_6 that does not start with 'DEL', and the minimum
\* sequence number among the accepted rows of its claim; every claim with an
\* accepted input row appears in the output.
C17_AcceptedMinimumRows ==
    pc = "returned" =>
        /\ \A k \in 1..Len(out_df) :
              LET row == out_df[k]
                  mine == C17_AcceptedRows(row.GNCHIIOS_HCLM_DCN)
              IN  /\ row.GNCHIIOS_HCLM_ITEM_CDE \in {"80", "84"}
                  /\ row.DDC_CD_CLM_PAY_ACT_2_6 \notin {"DEL", "DELET"}
                  /\ mine # {}
                  /\ \A i \in mine :
                        row.GNCHIIOS_HCLM_SEQ_NBR <= df[i].GNCHIIOS_HCLM_SEQ_NBR
                  /\ \E i \in mine :
                        row.GNCHIIOS_HCLM_SEQ_NBR = df[i].GNCHIIOS_HCLM_SEQ_NBR
        /\ \A i \in 1..Len(df) :
              i \in C17_AcceptedRows(df[i].GNCHIIOS_HCLM_DCN) =>
                  \E k \in 1..Len(out_df) :
                      out_df[k].GNCHIIOS_HCLM_DCN = df[i].GNCHIIOS_HCLM_DCN

\* a claim whose first line is rejected is reported by its accepted line
C17_Witness ==
    /\ pc = "returned"
    /\ Len(df) = 2 /\ Len(out_df) = 1
    /\ df[1].GNCHIIOS_HCLM_DCN = df[2].GNCHIIOS_HCLM_DCN
    /\ df[1].GNCHIIOS_HCLM_SEQ_NBR = 1 /\ df[1].DDC_CD_CLM_PAY_ACT_2_6 = "DELET"
    /\ df[2].GNCHIIOS_HCLM_SEQ_NBR = 2
    /\ out_df[1].GNCHIIOS_HCLM_SEQ_NBR = 2


(***************************************************************************)
(* PRVDR_STATUS: process_dataframe on frames of one accepted row           *)
(***************************************************************************)

\* rule I of the prompt, PAR (src/T2SQL/prompt_generation.py)
PromptParRule(row) ==
    \/ /\ row.DDC_CD_ITS_HOME_IND = "Y"
       /\ row.DDC_CD_PRVDR_IND \in
            {"A", "B", "C", "H", "I", "K", "M", "Y", "G", "O", "P", "Z", "S", "V",
             "E", "F", "R", "T", "U", "W"}
    \/ /\ row.DDC_CD_ITS_HOME_IND # "Y"
       /\ \/ row.DDC_CD_PAR_KEYED_IND \in {"P", "Y"}
          \/ row.DDC_CD_MX_PAR_IND \in {"Y", "E", "X", "T", "F", "U", "2", "1"}

\* values of the indicator columns: every listed value, and others
HomeValues == {"Y", "N", ""}

PrvdrValues ==
    {"A", "B", "C", "H", "I", "K", "M", "Y", "G", "O", "P", "Z", "S", "V", "E",
     "F", "R", "T", "U", "W", "N", "D", "L", "Q", ""}

KeyedValues == {"P", "Y", "N", ""}

MxValues == {"Y", "E", "X", "T", "F", "U", "2", "1", "N", "D", "Q", ""}

InitProvider ==
    /\ pc = "process_dataframe"
    /\ \E home \in HomeValues, prvdr \in PrvdrValues, keyed \in KeyedValues,
          mx \in MxValues :
          df = <<Row("dcn1", 1, "80", "PAID", "a", home, prvdr, keyed, mx)>>
    /\ reportType \in {"claim", "line", "summary"}
    /\ exclude_columns = {}
    /\ limit_values = <<>> /\ out_df = <<>>
    /\ query = <<>> /\ restricted = FALSE
    /\ NoExecution /\ NoRequest /\ NoGenerator /\ NoCriteria
    /\ NoConcurrent /\ NoFlow

SpecProvider == InitProvider /\ [][NextDataframe]_vars

\* C18: PRVDR_STATUS of every report row is PAR or NON-PAR; it is PAR exactly
\* when (ITS_HOME_IND = 'Y' and PRVDR_IND is in the home allow-list) or
\* (ITS_HOME_IND != 'Y' and (PAR_KEYED_IND in {P,Y} or MX_PAR_IND in
\* {Y,E,X,T,F,U,2,1})), which is the PAR predicate of the prompt's rule I;
\* every other row is NON-PAR.
C18_ParExactlyOnRule ==
    pc = "returned" =>
        \A k \in 1..Len(out_df) :
            LET row == out_df[k]
                par == \/ /\ row.DDC_CD_ITS_HOME_IND = "Y"
                          /\ row.DDC_CD_PRVDR_IND \in
                               {"A", "B", "C", "H", "I", "K", "M", "Y", "G", "O", "P",
                                "Z", "S", "V", "E", "F", "R", "T", "U", "W"}
                       \/ /\ row.DDC_CD_ITS_HOME_IND # "Y"
                          /\ \/ row.DDC_CD_PAR_KEYED_IND \in {"P", "Y"}
                             \/ row.DDC_CD_MX_PAR_IND \in
                                  {"Y", "E", "X", "T", "F", "U", "2", "1"}
            IN  /\ row.PRVDR_STATUS \in {"PAR", "NON-PAR"}
                /\ row.PRVDR_STATUS = "PAR" <=> par
                /\ par <=> PromptParRule(row)

\* a non-home row that is PAR by its PAR_KEYED_IND although its MX_PAR_IND
\* is in the non-participating list
C18_Witness ==
    /\ pc = "returned"
    /\ Len(out_df) = 1
    /\ out_df[1].DDC_CD_ITS_HOME_IND = "N"
    /\ out_df[1].DDC_CD_PAR_KEYED_IND = "P"
    /\ out_df[1].DDC_CD_MX_PAR_IND = "N"
    /\ out_df[1].PRVDR_STATUS = "PAR"

\* C19 as stated: ITS_HOME_IND='Y', PRVDR_IND='A' gives PAR, and
\* ITS_HOME_IND='N', PAR_KEYED_IND='N', MX_PAR_IND='X' gives NON-PAR.
C19_ReferenceCases ==
    pc = "returned" =>
        \A k \in 1..Len(out_df) :
            /\ (out_df[k].DDC_CD_ITS_HOME_IND = "Y" /\ out_df[k].DDC_CD_PRVDR_IND = "A")
                  => out_df[k].PRVDR_STATUS = "PAR"
            /\ (/\ out_df[k].DDC_CD_ITS_HOME_IND = "N"
                /\ out_df[k].DDC_CD_PAR_KEYED_IND = "N"
                /\ out_df[k].DDC_CD_MX_PAR_IND = "X")
                  => out_df[k].PRVDR_STATUS = "NON-PAR"

\* C19 amended: ITS_HOME_IND='Y', PRVDR_IND='A' gives PAR, and
\* ITS_HOME_IND='N', PAR_KEYED_IND='N', MX_PAR_IND='X' gives PAR as well,
\* 'X' being in the MX_PAR allow-list.
C19_ReferenceCasesBothPar ==
    pc = "returned" =>
        \A k \in 1..Len(out_df) :
            /\ (out_df[k].DDC_CD_ITS_HOME_IND = "Y" /\ out_df[k].DDC_CD_PRVDR_IND = "A")
                  => out_df[k].PRVDR_STATUS = "PAR"
            /\ (/\ out_df[k].DDC_CD_ITS_HOME_IND = "N"
                /\ out_df[k].DDC_CD_PAR_KEYED_IND = "N"
                /\ out_df[k].DDC_CD_MX_PAR_IND = "X")
                  => out_df[k].PRVDR_STATUS = "PAR"

\* the second reference row was classified
C19_Witness ==
    /\ pc = "returned"
    /\ Len(out_df) = 1
    /\ out_df[1].DDC_CD_ITS_HOME_IND = "N"
    /\ out_df[1].DDC_CD_PAR_KEYED_IND = "N"
    /\ out_df[1].DDC_CD_MX_PAR_IND = "X"
    /\ out_df[1].PRVDR_STATUS = "PAR"


(***************************************************************************)
(* filter_limit_columns_by_values (src/T2SQL/sql_processor.py)             *)
(* Cell values and target values are sequences of characters.              *)
(***************************************************************************)

\* the columns of the frames, in frame order
FrameColumns ==
    <<"DDC_DTL_ICDA_PNTR_1", "DDC_CD_LMT_CLS_CDE_1_1", "DDC_CD_LMT_CLS_CDE_1_2",
      "DDC_CD_LMT_CLS_CDE_1_3", "DDC_CD_LMT_CLS_CDE_2_1">>

\* int(parts[-2]) of a column that starts with DDC_CD_LMT_CLS_CDE and whose
\* last but one part is a number, 0 for any other column
PointerOfColumn(col) ==
    CASE col \in {"DDC_CD_LMT_CLS_CDE_1_1", "DDC_CD_LMT_CLS_CDE_1_2",
                  "DDC_CD_LMT_CLS_CDE_1_3"} -> 1
      [] col = "DDC_CD_LMT_CLS_CDE_2_1" -> 2
      [] OTHER -> 0

\* str(pointer_value)
PointerStr(pointer_value) ==
    CASE pointer_value = 1 -> <<"1">>
      [] pointer_value = 2 -> <<"2">>

\* the keys of limit_columns
limit_pointers(columns) ==
    {PointerOfColumn(columns[i]) : i \in 1..Len(columns)} \ {0}

\* limit_columns: pointer value |-> its columns in frame order
limit_columns(columns) ==
    [p \in limit_pointers(columns) |->
        SelectSeq(columns, LAMBDA col : PointerOfColumn(col) = p)]

\* df['concatenated_limit_clses'] after the loop over the pointer values
concatenated_limit_clses(row, columns) ==
    LET groups == limit_columns(columns)
        hit    == {p \in DOMAIN groups : row.DDC_DTL_ICDA_PNTR_1 = PointerStr(p)}
    IN  IF hit = {} THEN <<>>
        ELSE LET cols == groups[CHOOSE p \in hit : TRUE]
             IN  Join(<<",">>, [k \in 1..Len(cols) |-> row[cols[k]]])

\* the alternatives of '|'.join(map(re.escape, values)): joining no value
\* gives the empty pattern, which has the one alternative ''
pattern(targets) == IF targets = <<>> THEN << <<>> >> ELSE targets

\* Series.str.contains(pattern) on one cell
str_contains(text, alternatives) ==
    \E k \in 1..Len(alternatives) : Contains(text, alternatives[k])

\* the frame with the added column
WithConcatenated(frame, columns) ==
    [i \in 1..Len(frame) |->
        [c \in (DOMAIN frame[i]) \cup {"concatenated_limit_clses"} |->
            IF c = "concatenated_limit_clses"
            THEN concatenated_limit_clses(frame[i], columns)
            ELSE frame[i][c]]]

filter_limit_columns_by_values(frame, targets) ==
    LET marked == WithConcatenated(frame, FrameColumns)
    IN  Subframe(marked,
                 {i \in 1..Len(marked) :
                     str_contains(marked[i].concatenated_limit_clses, pattern(targets))})

LimitRow(pntr, c11, c12, c13, c21) ==
    [DDC_DTL_ICDA_PNTR_1 |-> pntr,
     DDC_CD_LMT_CLS_CDE_1_1 |-> c11, DDC_CD_LMT_CLS_CDE_1_2 |-> c12,
     DDC_CD_LMT_CLS_CDE_1_3 |-> c13, DDC_CD_LMT_CLS_CDE_2_1 |-> c21]

AR56 == <<"A", "R", "5", "6">>

FD1 == <<"F", "D", "1">>

ZZ9 == <<"Z", "Z", "9">>

\* rows whose pointer selects group 1, group 2 or no group
LimitRows ==
    { LimitRow(pntr, AR56, c12, c13, c21) :
        pntr \in {<<"1">>, <<"2">>, <<"3">>},
        c12 \in {<<>>, <<"F">>},
        c13 \in {FD1, <<"D", "1">>},
        c21 \in {<<>>, <<"X">> \o FD1} }

MaxLimitRows == 2

\* values as extract_limit_values returns them: no value, one or two
\* values, the empty value
LimitValues ==
    { <<>>, <<FD1>>, <<ZZ9>>, <<ZZ9, FD1>>, <<AR56, ZZ9>>, << <<"D", "1">> >>,
      << <<>> >>, <<ZZ9, <<>> >> }

InitFilter ==
    /\ pc = "filter"
    /\ df \in Frames(LimitRows, MaxLimitRows)
    /\ limit_values \in LimitValues
    /\ out_df = <<>>
    /\ reportType = "line" /\ exclude_columns = {}
    /\ query = <<>> /\ restricted = FALSE
    /\ NoExecution /\ NoRequest /\ NoGenerator /\ NoCriteria
    /\ NoConcurrent /\ NoFlow

\* df = self.filter_limit_columns_by_values(df, limit_values); the column is
\* added to the frame passed in
FilterLimitColumns ==
    /\ pc = "filter"
    /\ df' = WithConcatenated(df, FrameColumns)
    /\ out_df' = filter_limit_columns_by_values(df, limit_values)
    /\ pc' = "returned"
    /\ UNCHANGED <<limit_values, reportType, exclude_columns, query, restricted>>
    /\ UNCHANGED <<executionVars, requestVars, generatorVars, criteriaVars,
                   concurrentVars, flowVars>>

NextFilter == FilterLimitColumns

SpecFilter == InitFilter /\ [][NextFilter]_vars

\* the concatenation of the limit-class columns selected by the row's pointer
\* contains one of the target values
C20_GroupContainsTarget(row) ==
    LET group ==
            CASE row.DDC_DTL_ICDA_PNTR_1 = <<"1">> ->
                    row.DDC_CD_LMT_CLS_CDE_1_1 \o <<",">> \o row.DDC_CD_LMT_CLS_CDE_1_2
                        \o <<",">> \o row.DDC_CD_LMT_CLS_CDE_1_3
              [] row.DDC_DTL_ICDA_PNTR_1 = <<"2">> -> row.DDC_CD_LMT_CLS_CDE_2_1
              [] OTHER -> <<>>
    IN  /\ row.DDC_DTL_ICDA_PNTR_1 \in {<<"1">>, <<"2">>}
        /\ \E k \in 1..Len(limit_values) : Contains(group, limit_values[k])

\* C20: filter_limit_columns_by_values returns exactly the rows, in input
\* order, whose pointer-selected limit-class group contains a target value as
\* a substring; a row whose group contains no target value, or whose pointer
\* selects no group, is excluded.
C20_ExactlyRowsWithTarget ==
    pc = "returned" =>
        LET kept == {i \in 1..Len(df) : C20_GroupContainsTarget(df[i])}
        IN  out_df = Subframe(df, kept)


\* the response holds a fenced SQL block (fence, sql tag ... fence) or a
\* <generated_query> ... </generated_query> wrapper
C23_HasWrapper(r) ==
    \/ Search(r, <<Fence, "sql">>, <<Fence>>, FALSE).found
    \/ Search(r, <<"<generated_query>">>, <<"</generated_query>">>, FALSE).found

\* e is text of r found between an opening and a closing marker
C23_InsideWrapper(r, e) ==
    \E i \in 1..Len(r), j \in 1..Len(r) :
        /\ i < j
        /\ r[i] \in {Fence, "<generated_query>"}
        /\ r[j] \in {Fence, "</generated_query>"}
        /\ Contains(RemoveMarkers(SubSeq(r, i + 1, j - 1)), e)

\* C23: when the response contains a fenced SQL block or a <generated_query>
\* wrapper, _extract_sql returns the wrapper's inner query only: no fence
\* marker, no 'sql' language tag, no <generated_query> or </generated_query>
\* tag, no text from outside the wrapper.
C23_InnerQueryOnly ==
    (pc = "processed" /\ C23_HasWrapper(llm_response)) =>
        LET e == ExtractSql(llm_response)
        IN  /\ \A i \in 1..Len(e) :
                  e[i] \notin {Fence, "sql", "<generated_query>", "</generated_query>"}
            /\ C23_InsideWrapper(llm_response, e)

(***************************************************************************)
(* extract_limit_values (src/T2SQL/sql_processor.py)                       *)
(* Atoms written next to each other without a blank form one item, so      *)
(* <<"f", "or", "d">> is the text ford.                                    *)
(***************************************************************************)

\* the atoms that spell limit in some letter case
LimitAtoms == {"limit", "Limit", "LIMIT"}

\* "limit" in self.claim_criteria.lower()
MentionsLimit(criteria) == \E i \in 1..Len(criteria) : criteria[i] \in LimitAtoms

\* the group of re.search(r'limit.*?:\s*([^;]+)\s*;', criteria, IGNORECASE):
\* [found, group].  From the first limit, the first colon on the same line
\* that is followed by at least one character and then a semicolon; the group
\* runs from the first non-blank after the colon (from the last blank when
\* there are only blanks) up to that semicolon.
limit_search(criteria) ==
    LET n == Len(criteria)
        semi(c) == Find(criteria, <<";">>, c + 1)
        colons(i) == {c \in (i + 1)..n :
                         /\ criteria[c] = ":"
                         /\ \A k \in (i + 1)..(c - 1) : criteria[k] # "NL"
                         /\ semi(c) > c + 1}
        starts == {i \in 1..n : criteria[i] \in LimitAtoms /\ colons(i) # {}}
    IN  IF starts = {} THEN [found |-> FALSE, group |-> <<>>]
        ELSE LET c == Least(colons(Least(starts)))
                 body == SubSeq(criteria, c + 1, semi(c) - 1)
                 text == {k \in 1..Len(body) : body[k] \notin Whitespace}
             IN  [found |-> TRUE,
                  group |-> IF text = {} THEN <<body[Len(body)]>>
                            ELSE From(body, Least(text))]

\* the atoms re.split(r'\s*(?:,|or|and)\s*', limit_value) splits at: the
\* letters or / and are matched wherever they occur, in lower case only
limit_splitters == {",", "or", "and"}

\* [value.strip() for value in re.split(...)]
RECURSIVE limit_items(_)
limit_items(limit_value) ==
    LET at == {i \in 1..Len(limit_value) : limit_value[i] \in limit_splitters}
    IN  IF at = {} THEN <<Strip(limit_value)>>
        ELSE <<Strip(Before(limit_value, Least(at)))>>
             \o limit_items(From(limit_value, Least(at) + 1))

\* extract_limit_values(criteria)
extract_limit_values(criteria) ==
    LET match == limit_search(criteria)
    IN  IF match.found THEN limit_items(match.group) ELSE <<>>

MaxLimitPieces == 5

LimitPieces ==
    {<<"limit", ":">>, <<"Limit", "SP", "codes", "SP", ":", "SP">>, <<"AR56">>,
     <<"f">>, <<"or">>, <<"SP", "and", "SP">>, <<"SP">>, <<",">>, <<";">>}

InitLimit ==
    /\ pc = "limit"
    /\ input_str \in Texts(LimitPieces, MaxLimitPieces)
    /\ input_is_str = TRUE /\ result_dict = <<>> /\ reordered = <<>>
    /\ limit_values = <<>>
    /\ df = <<>> /\ reportType = "line" /\ exclude_columns = {} /\ out_df = <<>>
    /\ query = <<>> /\ restricted = FALSE
    /\ NoExecution /\ NoRequest /\ NoGenerator /\ NoConcurrent /\ NoFlow

\* process_query, lines 226-228: the criteria mention limit
ExtractLimitValues ==
    /\ pc = "limit"
    /\ MentionsLimit(input_str)
    /\ limit_values' = extract_limit_values(input_str)
    /\ pc' = "extracted"
    /\ UNCHANGED <<query, restricted, generatorVars, requestVars, criteriaVars,
                   executionVars, df, reportType, exclude_columns, out_df,
                   concurrentVars, flowVars>>

\* process_query, line 226: the criteria do not mention limit, no filter
NoLimitFilter ==
    /\ pc = "limit"
    /\ ~MentionsLimit(input_str)
    /\ pc' = "unfiltered"
    /\ UNCHANGED <<query, restricted, generatorVars, requestVars, criteriaVars,
                   executionVars, frameVars, concurrentVars, flowVars>>

NextLimit == ExtractLimitValues \/ NoLimitFilter

SpecLimit == InitLimit /\ [][NextLimit]_vars

\* the first limit clause of the criteria: [found, values], values being the
\* text between the first colon after the first limit and the next semicolon;
\* a clause has some text there
C26_FirstClause(criteria) ==
    LET starts == {i \in 1..Len(criteria) : criteria[i] \in LimitAtoms}
        c == IF starts = {} THEN 0 ELSE Find(criteria, <<":">>, Least(starts) + 1)
        e == IF c = 0 THEN 0 ELSE Find(criteria, <<";">>, c + 1)
        text == IF e <= c + 1 THEN <<>> ELSE SubSeq(criteria, c + 1, e - 1)
    IN  [found |-> Strip(text) # <<>>, values |-> text]

\* position i of text holds a separator: a comma, or the word or / and
C26_SeparatorAt(text, i) ==
    \/ text[i] = ","
    \/ /\ text[i] \in {"or", "and"}
       /\ i = 1 \/ text[i - 1] \in Whitespace \cup {","}
       /\ i = Len(text) \/ text[i + 1] \in Whitespace \cup {","}

\* the items of a clause's values, each trimmed
RECURSIVE C26_Items(_)
C26_Items(text) ==
    LET at == {i \in 1..Len(text) : C26_SeparatorAt(text, i)}
    IN  IF at = {} THEN <<Strip(text)>>
        ELSE <<Strip(Before(text, Least(at)))>> \o C26_Items(From(text, Least(at) + 1))

\* C26: when the criteria mention limit, the values used for limit filtering
\* are exactly the items of the first 'limit...: <values>;' clause, separated
\* at commas and at the words or / and, each trimmed, and every value is a
\* complete, non-empty item of that clause.
C26_ItemsOfFirstClause ==
    (pc = "extracted" /\ C26_FirstClause(input_str).found) =>
        /\ limit_values = C26_Items(C26_FirstClause(input_str).values)
        /\ \A k \in 1..Len(limit_values) : limit_values[k] # <<>>

(***************************************************************************)
(* Interleaved invocations of transformation (src/T2SQL/predictor.py)      *)
(* Each invocation has its own locals; the working directory's index copy  *)
(* and the insights table are shared by all of them.                       *)
(***************************************************************************)

MaxInvocations == 2

Invocations == 1..MaxInvocations

\* values of the request field clmBucket
Buckets == {"bucketA", "bucketB"}

\* content of s3://<clmBucket>/mapping_index/
BucketIndex(bucket) == IF bucket = "bucketA" THEN "indexA" ELSE "indexB"

\* RAG.search_documents on the loaded index, and generate_prompt on its result:
\* the prompt is determined by the index content (the criteria being fixed)
Prompt(index) == <<"prompt", index>>

\* generate_response: temperature 0 and a fixed seed, the answer is determined
\* by the prompt
Llm(prompt) == <<"sql", prompt>>

\* reponse['usage'] of the answer to a prompt
Usage(prompt) ==
    IF prompt = <<"prompt", "indexA">>
    THEN [prompt_tokens |-> 1, completion_tokens |-> 2]
    ELSE [prompt_tokens |-> 2, completion_tokens |-> 1]

\* the rows the warehouse returns for the query: a duplicated row
WarehouseRows == <<Row("dcn1", 1, "80", "PAID", "a", "Y", "A", "", ""),
                   Row("dcn1", 1, "80", "PAID", "a", "Y", "A", "", "")>>

\* sql_processor = SQLProcessor(input_json): a new instance in each invocation
ProcessorOf(p) == p

\* what the invocation with this request produces when it runs alone
Alone(request) ==
    [sql_query |-> Llm(Prompt(BucketIndex(request.clmBucket))),
     status |-> "SUCCESS",
     comments |-> "File uploaded successfully",
     report |-> process_dataframe(WarehouseRows, request.report_type, {})]

InitConcurrent ==
    /\ pc = "concurrent"
    /\ requests \in [Invocations -> [clmBucket : Buckets, report_type : {"claim", "line"}]]
    /\ invocations = [p \in Invocations |->
                        [pc |-> "copy_index_files", sql_query |-> <<>>,
                         input_token_count |-> 0, output_token_count |-> 0,
                         ddb_resp |-> <<>>, status |-> "FAILED", comments |-> "",
                         report |-> <<>>]]
    /\ local_index = ""
    /\ metric_table = <<>>
    /\ processors = [i \in Invocations |-> <<>>]
    /\ query = <<>> /\ restricted = FALSE
    /\ NoFrame /\ NoExecution /\ NoRequest /\ NoGenerator /\ NoCriteria /\ NoFlow

UnchangedByInvocations ==
    UNCHANGED <<pc, query, restricted, generatorVars, requestVars, criteriaVars,
                executionVars, frameVars, flowVars>>

\* line 226: aws s3 cp s3://<clmBucket>/mapping_index/ . --recursive
CopyIndexFiles(p) ==
    /\ invocations[p].pc = "copy_index_files"
    /\ local_index' = BucketIndex(requests[p].clmBucket)
    /\ invocations' = [invocations EXCEPT ![p].pc = "T2SQL"]
    /\ UNCHANGED <<requests, metric_table, processors>>
    /\ UnchangedByInvocations

\* lines 233-237: T2SQL loads the index from the working directory (line 60),
\* searches it, builds the prompt and asks the LLM
T2SQLStep(p) ==
    /\ invocations[p].pc = "T2SQL"
    /\ invocations' = [invocations EXCEPT
                         ![p].sql_query = Llm(Prompt(local_index)),
                         ![p].input_token_count = Usage(Prompt(local_index)).prompt_tokens,
                         ![p].output_token_count = Usage(Prompt(local_index)).completion_tokens,
                         ![p].pc = "get_item"]
    /\ UNCHANGED <<requests, local_index, metric_table, processors>>
    /\ UnchangedByInvocations

\* line 85: ddb_resp = get_item(...).get("Item", {})
GetItem(p) ==
    /\ invocations[p].pc = "get_item"
    /\ invocations' = [invocations EXCEPT ![p].ddb_resp = metric_table,
                                          ![p].pc = "upsert"]
    /\ UNCHANGED <<requests, local_index, metric_table, processors>>
    /\ UnchangedByInvocations

\* lines 86-99: update_item with values computed from ddb_resp, or put_item
UpsertItem(p) ==
    /\ invocations[p].pc = "upsert"
    /\ LET me   == invocations[p]
           resp == me.ddb_resp
       IN  metric_table' =
             IF resp # <<>>
             THEN [apiCount |-> resp.apiCount + 1,
                   inputTokenCount |-> resp.inputTokenCount + me.input_token_count,
                   outputTokenCount |-> resp.outputTokenCount + me.output_token_count,
                   totalTokenCount |-> resp.totalTokenCount + me.input_token_count
                                          + me.output_token_count]
             ELSE [apiCount |-> 1,
                   inputTokenCount |-> me.input_token_count,
                   outputTokenCount |-> me.output_token_count,
                   totalTokenCount |-> me.input_token_count + me.output_token_count]
    /\ invocations' = [invocations EXCEPT ![p].pc = "SQLProcessor"]
    /\ UNCHANGED <<requests, local_index, processors>>
    /\ UnchangedByInvocations

\* line 261 and SQLProcessor.__init__
NewSQLProcessor(p) ==
    /\ invocations[p].pc = "SQLProcessor"
    /\ processors' = [processors EXCEPT
                        ![ProcessorOf(p)] = [reportType |-> requests[p].report_type,
                                             bucket_name |-> requests[p].clmBucket]]
    /\ invocations' = [invocations EXCEPT ![p].pc = "process_query"]
    /\ UNCHANGED <<requests, local_index, metric_table>>
    /\ UnchangedByInvocations

\* line 262: process_query on a clean SELECT whose execution and upload succeed
ProcessQueryStep(p) ==
    /\ invocations[p].pc = "process_query"
    /\ invocations' = [invocations EXCEPT
                         ![p].report = process_dataframe(
                             WarehouseRows, processors[ProcessorOf(p)].reportType, {}),
                         ![p].status = "SUCCESS",
                         ![p].comments = "File uploaded successfully",
                         ![p].pc = "done"]
    /\ UNCHANGED <<requests, local_index, metric_table, processors>>
    /\ UnchangedByInvocations

NextConcurrent ==
    \E p \in DOMAIN invocations :
        \/ CopyIndexFiles(p) \/ T2SQLStep(p) \/ GetItem(p) \/ UpsertItem(p)
        \/ NewSQLProcessor(p) \/ ProcessQueryStep(p)

SpecConcurrent == InitConcurrent /\ [][NextConcurrent]_vars

\* what an invocation has produced
C22_Outcome(p) ==
    [sql_query |-> invocations[p].sql_query, status |-> invocations[p].status,
     comments |-> invocations[p].comments, report |-> invocations[p].report]

\* C22: interleaved in any order, each invocation ends with the SQL, the
\* (status, comments) pair and the report rows it produces when it runs alone.
C22_SameAsAlone ==
    \A p \in Invocations :
        invocations[p].pc = "done" => C22_Outcome(p) = Alone(requests[p])

(***************************************************************************)
(* Interleaved invocations of upsert_record_in_metric_table                *)
(***************************************************************************)

MaxUpserts == 2

\* input_token_count / output_token_count passed to the function
TokenCounts == {1, 2}

InitMetric ==
    /\ pc = "concurrent"
    /\ \E in \in [1..MaxUpserts -> TokenCounts], out \in [1..MaxUpserts -> TokenCounts] :
        invocations = [p \in 1..MaxUpserts |->
                         [pc |-> "get_item", sql_query |-> <<>>,
                          input_token_count |-> in[p], output_token_count |-> out[p],
                          ddb_resp |-> <<>>, status |-> "FAILED", comments |-> "",
                          report |-> <<>>]]
    /\ requests = <<>>
    /\ local_index = ""
    /\ metric_table = <<>>
    /\ processors = <<>>
    /\ query = <<>> /\ restricted = FALSE
    /\ NoFrame /\ NoExecution /\ NoRequest /\ NoGenerator /\ NoCriteria /\ NoFlow

NextMetric == \E p \in DOMAIN invocations : GetItem(p) \/ UpsertItem(p)

SpecMetric == InitMetric /\ [][NextMetric]_vars

\* C28: when all invocations of upsert_record_in_metric_table have completed,
\* the day's record has apiCount equal to the number of invocations, the token
\* counts equal to the sums of the passed counts, and totalTokenCount =
\* inputTokenCount + outputTokenCount.
C28_NoUpdateLost ==
    (\A p \in DOMAIN invocations : invocations[p].pc = "SQLProcessor")
        => LET RECURSIVE Sum(_, _)
               Sum(field, n) ==
                   IF n = 0 THEN 0 ELSE invocations[n][field] + Sum(field, n - 1)
           IN  /\ metric_table.apiCount = MaxUpserts
               /\ metric_table.inputTokenCount = Sum("input_token_count", MaxUpserts)
               /\ metric_table.outputTokenCount = Sum("output_token_count", MaxUpserts)
               /\ metric_table.totalTokenCount =
                      metric_table.inputTokenCount + metric_table.outputTokenCount

(***************************************************************************)
(* SOPRuleFlow and ShakespeareXPostFlow                                    *)
(* (src/crewai-flows-feedback-loop/src/self_evaluation_loop_flow)          *)
(* A generated text is named by the number of the crafter run that wrote   *)
(* it; pc holds the method to run next, or the route the flow left by.     *)
(***************************************************************************)

\* accuracy_score values a validator may return
Scores == {80, 90}

\* the retry test passes one count later
RetryExceeded_OneLater(retry_count) == retry_count > 4

\* if self.state.<stage>_retry_count > 3
RetryExceeded(retry_count) == retry_count > 3

\* <stage>_valid and <stage>_accuracy_score > 80
Accepted80(valid, accuracy_score) == valid /\ accuracy_score > 80

\* SOPRuleFlowState()
SOPRuleFlowState ==
    [json_sop |-> 0, json_feedback |-> 0, json_valid |-> FALSE,
     json_accuracy_score |-> 0, json_retry_count |-> 0,
     drools_sop |-> 0, drools_feedback |-> 0, drools_valid |-> FALSE,
     drools_accuracy_score |-> 0, drools_retry_count |-> 0]

\* ShakespeareXPostFlowState()
ShakespeareXPostFlowState ==
    [x_post |-> 0, feedback |-> 0, valid |-> FALSE, retry_count |-> 0]

\* kickoff() of one of the two flows
InitFlow ==
    /\ \/ pc = "generate_json_sop" /\ state = SOPRuleFlowState
       \/ pc = "generate_shakespeare_x_post" /\ state = ShakespeareXPostFlowState
    /\ crew_runs = [crafter |-> 0, validator |-> 0,
                    drools_crafter |-> 0, drools_validator |-> 0]
    /\ validated = [first |-> 0, drools |-> 0]
    /\ query = <<>> /\ restricted = FALSE
    /\ NoFrame /\ NoExecution /\ NoRequest /\ NoGenerator /\ NoCriteria /\ NoConcurrent

UnchangedByFlow ==
    UNCHANGED <<query, restricted, generatorVars, requestVars, criteriaVars,
                executionVars, frameVars, concurrentVars>>

\* main.py lines 33-39
generate_json_sop ==
    /\ pc = "generate_json_sop"
    /\ crew_runs' = [crew_runs EXCEPT !.crafter = @ + 1]
    /\ state' = [state EXCEPT !.json_sop = crew_runs'.crafter]
    /\ pc' = "evaluate_json_sop"
    /\ UNCHANGED validated
    /\ UnchangedByFlow

\* main.py lines 41-61
evaluate_json_sop ==
    /\ pc = "evaluate_json_sop"
    /\ IF RetryExceeded(state.json_retry_count)
       THEN /\ pc' = "json_max_retry_exceeded"
            /\ UNCHANGED <<state, crew_runs, validated>>
       ELSE \E valid \in BOOLEAN, accuracy_score \in Scores :
            /\ crew_runs' = [crew_runs EXCEPT !.validator = @ + 1]
            /\ validated' = [validated EXCEPT !.first = state.json_sop]
            /\ state' = [state EXCEPT !.json_valid = valid,
                                      !.json_accuracy_score = accuracy_score,
                                      !.json_feedback = state.json_sop,
                                      !.json_retry_count = @ + 1]
            /\ pc' = IF Accepted80(valid, accuracy_score)
                     THEN "generate_drools_sop" ELSE "generate_json_sop"
    /\ UnchangedByFlow

\* main.py lines 78-84
generate_drools_sop ==
    /\ pc = "generate_drools_sop"
    /\ crew_runs' = [crew_runs EXCEPT !.drools_crafter = @ + 1]
    /\ state' = [state EXCEPT !.drools_sop = crew_runs'.drools_crafter]
    /\ pc' = "evaluate_drools_sop"
    /\ UNCHANGED validated
    /\ UnchangedByFlow

\* main.py lines 86-107
evaluate_drools_sop ==
    /\ pc = "evaluate_drools_sop"
    /\ IF RetryExceeded(state.drools_retry_count)
       THEN /\ pc' = "drools_max_retry_exceeded"
            /\ UNCHANGED <<state, crew_runs, validated>>
       ELSE \E valid \in BOOLEAN, accuracy_score \in Scores :
            /\ crew_runs' = [crew_runs EXCEPT !.drools_validator = @ + 1]
            /\ validated' = [validated EXCEPT !.drools = state.drools_sop]
            /\ state' = [state EXCEPT !.drools_valid = valid,
                                      !.drools_accuracy_score = accuracy_score,
                                      !.drools_feedback = state.drools_sop,
                                      !.drools_retry_count = @ + 1]
            /\ pc' = IF Accepted80(valid, accuracy_score)
                     THEN "completed" ELSE "generate_drools_sop"
    /\ UnchangedByFlow

\* main1.py lines 21-27
generate_shakespeare_x_post ==
    /\ pc = "generate_shakespeare_x_post"
    /\ crew_runs' = [crew_runs EXCEPT !.crafter = @ + 1]
    /\ state' = [state EXCEPT !.x_post = crew_runs'.crafter]
    /\ pc' = "evaluate_x_post"
    /\ UNCHANGED validated
    /\ UnchangedByFlow

\* main1.py lines 28-46
evaluate_x_post ==
    /\ pc = "evaluate_x_post"
    /\ IF RetryExceeded(state.retry_count)
       THEN /\ pc' = "max_retry_exceeded"
            /\ UNCHANGED <<state, crew_runs, validated>>
       ELSE \E valid \in BOOLEAN :
            /\ crew_runs' = [crew_runs EXCEPT !.validator = @ + 1]
            /\ validated' = [validated EXCEPT !.first = state.x_post]
            /\ state' = [state EXCEPT !.valid = valid,
                                      !.feedback = state.x_post,
                                      !.retry_count = @ + 1]
            /\ pc' = IF valid THEN "completed" ELSE "generate_shakespeare_x_post"
    /\ UnchangedByFlow

NextFlow ==
    \/ generate_json_sop \/ evaluate_json_sop
    \/ generate_drools_sop \/ evaluate_drools_sop
    \/ generate_shakespeare_x_post \/ evaluate_x_post

SpecFlow == InitFlow /\ [][NextFlow]_vars

\* a flow runs its next method whenever there is one
SpecFlowLive == SpecFlow /\ WF_vars(NextFlow)

\* the routes a flow ends by
C29_Outcomes ==
    {"completed", "json_max_retry_exceeded", "drools_max_retry_exceeded",
     "max_retry_exceeded"}

\* the retry counters held in the state
C29_RetryCounts ==
    IF "json_retry_count" \in DOMAIN state
    THEN {state.json_retry_count, state.drools_retry_count}
    ELSE {state.retry_count}

\* C29: for every sequence of validator verdicts the flow ends by one of its
\* outcomes; in each stage the validator crew runs at most 4 times and the
\* crafter crew at most 5 times, and no retry counter exceeds 4; for
\* SOPRuleFlow and for ShakespeareXPostFlow.
C29_BoundedRetriesAndTermination ==
    /\ [](/\ crew_runs.validator <= 4 /\ crew_runs.drools_validator <= 4
          /\ crew_runs.crafter <= 5 /\ crew_runs.drools_crafter <= 5
          /\ \A n \in C29_RetryCounts : n <= 4)
    /\ <>[](pc \in C29_Outcomes)

\* the JSON stage used all its runs and the flow left by its retry exit
C29_Witness ==
    /\ pc = "json_max_retry_exceeded"
    /\ crew_runs.crafter = 5 /\ crew_runs.validator = 4
    /\ state.json_retry_count = 4

\* C30: when SOPRuleFlow leaves by json_max_retry_exceeded or
\* drools_max_retry_exceeded, the SOP held in the state is the one the stored
\* verdict was computed for; and the Drools stage runs only from a JSON SOP
\* whose own validation returned valid with accuracy above 80.
C30_HeldSopIsTheEvaluatedOne ==
    /\ pc = "json_max_retry_exceeded" => validated.first = state.json_sop
    /\ pc = "drools_max_retry_exceeded" => validated.drools = state.drools_sop
    /\ ("json_sop" \in DOMAIN state
        /\ pc \in {"generate_drools_sop", "evaluate_drools_sop", "completed",
                   "drools_max_retry_exceeded"})
          => /\ validated.first = state.json_sop
             /\ state.json_valid /\ state.json_accuracy_score > 80


====
